---- MODULE Spec2Model ----
(***************************************************************************)
(* openclaw-mesh: the ledger-backed Store (src/src/store.rs), the gossip    *)
(* transport of MeshNode (src/src/p2p.rs), the TaskBazaar                   *)
(* (src/src/task_bazaar.rs), the TaskWorker (src/src/task_worker.rs) and    *)
(* the inbound dispatcher (src/src/main.rs).                                *)
(*                                                                         *)
(* Strings that the code treats as opaque identifiers are TLA+ strings.    *)
(* Option::None of a string is NONE, of an integer None (Some(x) is <<x>>). *)
(* sha256_hex is modelled as a collision-free constructor over its input   *)
(* (Sha256), the empty string "" of a hash as EmptyStr.  Wall-clock fields  *)
(* that no operation reads back (created_at, imported_at's value, the      *)
(* ledger timestamp, published_at, assigned_at, completed_at) are left out *)
(* of the records.                                                         *)
(*                                                                         *)
(* Store, TaskBazaar and the helpers of MeshNode are operators over the    *)
(* value of the object; an operation that can fail returns the object      *)
(* together with ok.  Where the code leaves the outcome open (the order of *)
(* a HashMap, a shuffle) the operator yields the set of outcomes.          *)
(*                                                                         *)
(* A connection is the queue chan of frames written and not yet read; the  *)
(* reader of a connection takes a frame and decides should_process under   *)
(* the seen_messages mutex (ReadFrame), and hands it to the dispatcher and *)
(* relays it in a second step (Deliver): the readers of a node are tasks   *)
(* of their own and run between one another's steps.                       *)
(*                                                                         *)
(* Specifications: SpecStore (one Store under any calls), SpecGossip       *)
(* (three mutually connected nodes, capsule broadcasts, the ttl of the     *)
(* seen table scaled to the clock of the model), SpecBazaar (the funded    *)
(* genesis node node_a connected to node_b, each with dispatcher and       *)
(* worker, one task), SpecInbound (node_a with its dispatcher and worker;  *)
(* the peer node_b may send any of its task messages at any time),         *)
(* SpecPublish (publish_task on one funded or unfunded node), SpecWinner   *)
(* (bids added to one task and determine_winner), SpecCapsule              *)
(* (store_capsule on one Store), SpecConn (handle_connection with its      *)
(* handshake and the DHT frames, dht_store and dht_find on node_a          *)
(* connected to node_b and to a plain TCP client), SpecLocks (the tasks of *)
(* one node that lock the Store and TaskBazaar mutexes), SpecOrder (node_a *)
(* reading frames from two connections and dispatching them), SpecLife     *)
(* (node_a accepting node_c and plain TCP clients whose connections end,   *)
(* fail and are written to), SpecFanout (broadcast and relay of one frame  *)
(* over peer tables of every size), SpecSeen (the seen table under marks,  *)
(* checks and the clock), SpecTasks (the task table of node_a under        *)
(* handle_new_task, add_bid, task_assigned and submit_solution),           *)
(* SpecVoting (SpecBazaar with a clock of two worker periods), SpecMerge   *)
(* (store_dht_value applied to the DHT map of node_a), SpecRoute (SpecConn *)
(* with a value stored on node_b and readers that keep reading), SpecHops  *)
(* (broadcasts of node_a with any hops_left over a line and a triangle).   *)
(***************************************************************************)
EXTENDS Integers, Sequences, FiniteSets, TLC

VARIABLES
    store,      \* the single Store of the store specification
    last,       \* the last Store call: operation, arguments, Ok/Err
    now,        \* chrono::Utc::now().timestamp_millis()
    peers,      \* peers[n]: the peer table of node n (peer_id -> PeerHandle)
    chan,       \* chan[<<a, b>>]: frames written by a and not yet read by b
    reader,     \* reader[<<a, b>>]: the frame b's reader of that connection holds
    seen,       \* seen[n]: seen_messages of node n (message_id -> seen_at)
    inbound,    \* inbound[n]: the channel from n's readers to its dispatcher
    minted,     \* number of message ids drawn by random_token so far
    dispatched, \* dispatched[n][id]: hand-overs of id to n's dispatcher so far
    relayed,    \* relayed[n][id]: relays of id by node n so far
    stores,     \* stores[n]: the Store of node n
    tasks,      \* tasks[n]: TaskBazaar.tasks of node n
    completed_tasks, \* completed_tasks[n]: TaskBazaar.completed_tasks of node n
    worker,     \* worker[n]: the TaskWorker of node n and its place in the loop
    mutex,      \* mutex[m]: the task that holds mutex m, and what became of m
    pc,         \* pc[t]: where task t stands in its code
    dht,        \* dht[n]: dht_store and dht_waiters of node n
    arrived,    \* arrived[<<a, b>>]: the frames b received from a, in order
    handled     \* handled[n]: the messages n's dispatcher handled, in order

storeVars == <<store, last>>
meshVars == <<now, peers, chan, reader, seen, inbound, minted, dispatched, relayed>>
bazaarVars == <<stores, tasks, completed_tasks, worker>>
connVars == <<mutex, pc, dht, arrived, handled>>
vars == <<store, last, now, peers, chan, reader, seen, inbound, minted,
          dispatched, relayed, stores, tasks, completed_tasks, worker,
          mutex, pc, dht, arrived, handled>>

NONE == "<none>"
EmptyStr == <<>>

\* ---------------------------------------------------------------- bounds
GenesisSupply == 2      \* OPENCLAW_GENESIS_SUPPLY
MaxOps == 3             \* ledger entries plus imports after which the store model stops
MaxTime == 1            \* ticks of the clock
MaxMsgs == 2            \* capsules broadcast in the gossip specification
SeenTtl == 0            \* the ttl of the scaled seen table, in ticks

\* ---------------------------------------------------------------- inputs
GenesisNode == "node_genesis"
GenesisAccount == "acct_genesis"
LocalNode == "node_a"
NodeIds == {GenesisNode, LocalNode}
FreshAccountIds == {"acct_1", "acct_2"}
AccountIds == {GenesisAccount} \cup FreshAccountIds
TaskIds == {"task_1"}
Amounts == {-1, 0, 1, 2}
ImportIds == {GenesisAccount, "acct_1"}
ImportBalances == {-1, 2}

\* ---------------------------------------------------------------- Store
Sha256(x) == <<"sha256", x>>

MaxOf(S) == CHOOSE x \in S : \A y \in S : y <= x

RECURSIVE SumOver(_, _)
SumOver(f, S) ==
    IF S = {} THEN 0
    ELSE LET x == CHOOSE y \in S : TRUE IN f[x] + SumOver(f, S \ {x})

Ok(s, v) == [s |-> s, ok |-> TRUE, val |-> v]
Err(s) == [s |-> s, ok |-> FALSE, val |-> NONE]

EmptyFn == [x \in {} |-> NONE]

EmptyStore(is_genesis_node, operator) ==
    [accounts |-> EmptyFn, account_index |-> EmptyFn, ledger |-> EmptyFn,
     escrows |-> EmptyFn, imports |-> 0,
     capsules |-> EmptyFn, capsule_index |-> EmptyFn,
     is_genesis_node |-> is_genesis_node,
     genesis_operator_account_id |-> operator]

get_account_id_by_node(s, node_id) ==
    IF node_id \in DOMAIN s.account_index THEN s.account_index[node_id] ELSE NONE

has_account(s, account_id) == account_id \in DOMAIN s.accounts

put_account(s, account) ==
    [s EXCEPT !.accounts = (account.account_id :> account) @@ @]

index_insert(s, node_id, account_id) ==
    [s EXCEPT !.account_index = (node_id :> account_id) @@ @]

\* ledger_head chaining the new entry to the last entry's prev_hash instead of
\* its hash
ledger_head_stale(s) ==
    IF DOMAIN s.ledger = {} THEN <<0, EmptyStr>>
    ELSE LET entry == s.ledger[MaxOf(DOMAIN s.ledger)]
         IN <<entry.index + 1, entry.prev_hash>>

ledger_head(s) ==
    IF DOMAIN s.ledger = {} THEN <<0, EmptyStr>>
    ELSE LET entry == s.ledger[MaxOf(DOMAIN s.ledger)]
         IN <<entry.index + 1, entry.hash>>

LedgerPayload(index, prev_hash, entry_type, from, to, amount, meta) ==
    [index |-> index, prev_hash |-> prev_hash, entry_type |-> entry_type,
     from |-> from, to |-> to, amount |-> amount, meta |-> meta]

LedgerEntry(payload, hash, account_id) ==
    [index |-> payload.index, prev_hash |-> payload.prev_hash, hash |-> hash,
     entry_type |-> payload.entry_type, account_id |-> account_id,
     from |-> payload.from, to |-> payload.to, amount |-> payload.amount,
     meta |-> payload.meta]

\* returns <<store', entry>>
append_ledger(s, entry_type, from, to, amount, meta) ==
    LET head == ledger_head(s)
        payload == LedgerPayload(head[1], head[2], entry_type, from, to, amount, meta)
        entry == LedgerEntry(payload, Sha256(payload), NONE)
    IN <<[s EXCEPT !.ledger = (entry.index :> entry) @@ @], entry>>

ensure_genesis_account(s) ==
    IF get_account_id_by_node(s, GenesisNode) # NONE
    THEN LET id == get_account_id_by_node(s, GenesisNode)
         IN IF has_account(s, id) THEN Ok(s, s.accounts[id]) ELSE Err(s)
    ELSE LET account == [account_id |-> GenesisAccount, node_id |-> GenesisNode,
                         imported |-> FALSE, balance |-> 0]
             s1 == index_insert(put_account(s, account), GenesisNode, account.account_id)
         IN IF DOMAIN s1.ledger = {}
            THEN LET ap == append_ledger(s1, "mint", NONE, account.account_id,
                                         GenesisSupply, NONE)
                     entry == [ap[2] EXCEPT !.account_id = account.account_id]
                     s2 == [ap[1] EXCEPT !.ledger = (entry.index :> entry) @@ @]
                     updated == [account EXCEPT !.balance = @ + GenesisSupply]
                 IN Ok(put_account(s2, updated), updated)
            ELSE Ok(s1, account)

open(is_genesis_node, operator) ==
    LET s == EmptyStore(is_genesis_node, operator)
    IN IF is_genesis_node THEN ensure_genesis_account(s).s ELSE s

\* "acct_" + random_hex(8): an id no stored account carries; the ids of the pool
\* are interchangeable, so the first unused one stands for the draw
random_account_id(s) ==
    IF "acct_1" \notin DOMAIN s.accounts THEN "acct_1"
    ELSE IF "acct_2" \notin DOMAIN s.accounts THEN "acct_2"
    ELSE NONE

\* account_id is the fresh id drawn by random_account_id
ensure_account(s, node_id, account_id) ==
    IF get_account_id_by_node(s, node_id) # NONE
    THEN LET id == get_account_id_by_node(s, node_id)
         IN IF has_account(s, id) THEN Ok(s, s.accounts[id]) ELSE Err(s)
    ELSE LET account == [account_id |-> account_id, node_id |-> node_id,
                         imported |-> FALSE, balance |-> 0]
         IN Ok(index_insert(put_account(s, account), node_id, account_id), account)

import_account(s, node_id, payload) ==
    LET imported == [payload EXCEPT !.node_id = node_id, !.imported = TRUE]
        s1 == index_insert(put_account(s, imported), node_id, imported.account_id)
    IN Ok([s1 EXCEPT !.imports = @ + 1], imported)

transfer(s, from_account_id, to_account_id, amount, operator_account_id) ==
    IF amount <= 0 THEN Err(s)
    ELSE
    LET g == ensure_genesis_account(s) IN
    IF ~g.ok THEN Err(g.s)
    ELSE
    LET s1 == g.s IN
    IF /\ from_account_id = g.val.account_id
       /\ \/ s1.genesis_operator_account_id = NONE
          \/ s1.genesis_operator_account_id # operator_account_id
    THEN Err(s1)
    ELSE IF ~has_account(s1, from_account_id) \/ ~has_account(s1, to_account_id)
    THEN Err(s1)
    ELSE
    LET from_account == s1.accounts[from_account_id]
        to_account == s1.accounts[to_account_id]
    IN IF from_account.balance < amount THEN Err(s1)
       ELSE LET from2 == [from_account EXCEPT !.balance = @ - amount]
                to2 == [to_account EXCEPT !.balance = @ + amount]
                s2 == put_account(put_account(s1, from2), to2)
            IN Ok(append_ledger(s2, "transfer", from_account_id, to_account_id,
                                amount, NONE)[1], NONE)

lock_escrow(s, task_id, from_account_id, amount, token) ==
    IF amount <= 0 THEN Err(s)
    ELSE IF ~has_account(s, from_account_id) THEN Err(s)
    ELSE
    LET from_account == s.accounts[from_account_id] IN
    IF from_account.balance < amount THEN Err(s)
    ELSE LET s1 == put_account(s, [from_account EXCEPT !.balance = @ - amount])
             escrow == [task_id |-> task_id, from_account_id |-> from_account_id,
                        amount |-> amount, token |-> token]
             s2 == [s1 EXCEPT !.escrows = (task_id :> escrow) @@ @]
         IN Ok(append_ledger(s2, "escrow_locked", from_account_id, NONE, amount,
                             task_id)[1], NONE)

release_escrow_keep_row(s, task_id, winner_account_id) ==
    IF task_id \notin DOMAIN s.escrows THEN Ok(s, 0)
    ELSE
    LET escrow == s.escrows[task_id] IN
    IF ~has_account(s, winner_account_id) THEN Err(s)
    ELSE LET winner == s.accounts[winner_account_id]
             s1 == put_account(s, [winner EXCEPT !.balance = @ + escrow.amount])
         IN Ok(append_ledger(s1, "escrow_released", NONE, winner_account_id,
                             escrow.amount, task_id)[1], escrow.amount)

release_escrow(s, task_id, winner_account_id) ==
    IF task_id \notin DOMAIN s.escrows THEN Ok(s, 0)
    ELSE
    LET escrow == s.escrows[task_id] IN
    IF ~has_account(s, winner_account_id) THEN Err(s)
    ELSE LET winner == s.accounts[winner_account_id]
             s1 == put_account(s, [winner EXCEPT !.balance = @ + escrow.amount])
             s2 == [s1 EXCEPT !.escrows =
                        [t \in DOMAIN @ \ {task_id} |-> @[t]]]
         IN Ok(append_ledger(s2, "escrow_released", NONE, winner_account_id,
                             escrow.amount, task_id)[1], escrow.amount)

get_balance(s, node_id) ==
    LET id == get_account_id_by_node(s, node_id)
    IN IF id = NONE \/ ~has_account(s, id) THEN Err(s)
       ELSE Ok(s, s.accounts[id].balance)

\* ------------------------------------------------------------- MeshNode
seen_ttl_ms == 300000
max_seen_messages == 10000
default_fanout == 6
task_fanout == 8
default_hops == 3
task_hops == 4
TickMs == 5000          \* the clock advances in steps of the worker's sleep

Nodes == {"node_a", "node_b", "node_c"}
MsgIdPool == <<"m1", "m2", "m3", "m4", "m5", "m6">>
EnvIds == {"e1", "e2", "e3", "e4"}
MsgIds == {MsgIdPool[i] : i \in 1 .. Len(MsgIdPool)} \cup EnvIds
Links == {l \in Nodes \X Nodes : l[1] # l[2]}

\* Option<i64>
None == <<>>
Some(x) == <<x>>
unwrap_or(o, default) == IF o = None THEN default ELSE o[1]

\* the limits of the seen table as the program sets them, and with the ttl
\* scaled down to the ticks of the model
ProgramLimits == [ttl_ms |-> seen_ttl_ms, max_seen |-> max_seen_messages]
ScaledLimits == [ttl_ms |-> SeenTtl * TickMs, max_seen |-> max_seen_messages]

WireMessage(type, payload, message_id, hops_left) ==
    [type |-> type, payload |-> payload, message_id |-> message_id,
     hops_left |-> hops_left]

\* the tables cleanup_seen_messages can leave: entries older than the ttl are
\* dropped, then keys are removed in HashMap iteration order (any key may come
\* first) until at most max_seen are left
cleanup_seen_messages(table, t, ttl_ms, max_seen) ==
    LET kept == {id \in DOMAIN table : t - table[id] <= ttl_ms}
    IN IF Cardinality(kept) <= max_seen
       THEN {[id \in kept |-> table[id]]}
       ELSE {[id \in S |-> table[id]] :
                S \in {K \in SUBSET kept : Cardinality(K) = max_seen}}

\* the tables mark_message_seen can leave
mark_message_seen(table, message_id, t, lim) ==
    cleanup_seen_messages((message_id :> t) @@ table, t, lim.ttl_ms, lim.max_seen)

\* the outcomes of should_process_message: <<should_process, seen table>>
should_process_message(table, message, t, lim) ==
    IF message.message_id = NONE THEN {<<TRUE, table>>}
    ELSE IF message.message_id \in DOMAIN table THEN {<<FALSE, table>>}
    ELSE {<<unwrap_or(message.hops_left, default_hops) >= 0, table2>> :
             table2 \in cleanup_seen_messages((message.message_id :> t) @@ table,
                                              t, lim.ttl_ms, lim.max_seen)}

should_relay_message(message) ==
    /\ message.type \notin {"handshake", "ping", "pong"}
    /\ message.type \notin {"query", "query_response"}
    /\ message.type \notin {"dht_store", "dht_find", "dht_value"}

\* the peer lists select_peers_static can return: peers with a known rtt in
\* ascending rtt order, then the others shuffled, cut to fanout
select_peers_static(table, fanout, exclude_peer) ==
    LET eligible == DOMAIN table \ {exclude_peer}
        with_stats == {p \in eligible : table[p].rtt # None}
        k == IF fanout >= Cardinality(eligible) THEN Cardinality(eligible)
             ELSE fanout
    IN IF fanout = 0 THEN {with_stats}
       ELSE {S \in SUBSET eligible :
               /\ Cardinality(S) = k
               /\ \A p \in S, q \in eligible \ S :
                    /\ q \in with_stats => p \in with_stats
                    /\ (p \in with_stats /\ q \in with_stats)
                         => table[p].rtt[1] <= table[q].rtt[1]}

\* send_to_peer_static to every peer of targets: the frame joins the mailbox of
\* each connection
SendAll(channels, from, targets, message) ==
    [l \in Links |->
        IF l[1] = from /\ l[2] \in targets THEN Append(channels[l], message)
        ELSE channels[l]]

\* the fanout MeshNode::broadcast uses
Fanout(message) ==
    IF message.type \in {"task", "task_bid", "task_assigned", "task_completed"}
    THEN task_fanout ELSE default_fanout

\* the fanout the relay in handle_connection uses
RelayFanout(message) ==
    IF message.type = "task" THEN task_fanout ELSE default_fanout

\* ensure_message_id: the id of the message, a fresh random token if it has none
ensure_message_id(message) ==
    IF message.message_id = NONE THEN MsgIdPool[minted + 1]
    ELSE message.message_id

\* MeshNode::broadcast(message, None)
broadcast(n, message, lim) ==
    LET id == ensure_message_id(message)
        m == [message EXCEPT !.message_id = id]
    IN /\ minted' = IF message.message_id = NONE THEN minted + 1 ELSE minted
       /\ \E table \in mark_message_seen(seen[n], id, now, lim) :
             seen' = [seen EXCEPT ![n] = table]
       /\ \E targets \in select_peers_static(peers[n], Fanout(m), NONE) :
             chan' = SendAll(chan, n, targets, m)

\* the read loop of handle_connection on the connection from p, up to the
\* decision of should_process_message
ReadFrame(n, p, lim) ==
    /\ reader[<<p, n>>] = <<>>
    /\ chan[<<p, n>>] # <<>>
    /\ LET parsed == Head(chan[<<p, n>>])
       IN \E r \in should_process_message(seen[n], parsed, now, lim) :
             /\ seen' = [seen EXCEPT ![n] = r[2]]
             /\ reader' = [reader EXCEPT ![<<p, n>>] =
                              IF r[1] THEN <<parsed>> ELSE <<>>]
    /\ chan' = [chan EXCEPT ![<<p, n>>] = Tail(@)]
    /\ UNCHANGED <<now, peers, inbound, minted, dispatched, relayed>>

\* Deliver with the hand-over put in front of the waiting ones
Deliver_in_front(n, p) ==
    /\ reader[<<p, n>>] # <<>>
    /\ LET parsed == reader[<<p, n>>][1]
           next_hops == unwrap_or(parsed.hops_left, default_hops) - 1
           relay == should_relay_message(parsed) /\ next_hops >= 0
           relayedMsg == [parsed EXCEPT !.hops_left = Some(next_hops)]
       IN /\ inbound' = [inbound EXCEPT ![n] =
                            <<[peer_id |-> p, message |-> parsed]>> \o @]
          /\ dispatched' = IF parsed.message_id = NONE THEN dispatched
                           ELSE [dispatched EXCEPT ![n][parsed.message_id] = @ + 1]
          /\ IF relay
             THEN \E targets \in select_peers_static(peers[n], RelayFanout(relayedMsg), p) :
                     /\ chan' = SendAll(chan, n, targets, relayedMsg)
                     /\ relayed' = IF targets = {} \/ parsed.message_id = NONE
                                   THEN relayed
                                   ELSE [relayed EXCEPT ![n][parsed.message_id] = @ + 1]
             ELSE UNCHANGED <<chan, relayed>>
    /\ reader' = [reader EXCEPT ![<<p, n>>] = <<>>]
    /\ UNCHANGED <<now, peers, seen, minted>>

\* Deliver with a relay that does not look at the hops_left it has lowered
Deliver_relay_below_zero(n, p) ==
    /\ reader[<<p, n>>] # <<>>
    /\ LET parsed == reader[<<p, n>>][1]
           next_hops == unwrap_or(parsed.hops_left, default_hops) - 1
           relay == should_relay_message(parsed)
           relayedMsg == [parsed EXCEPT !.hops_left = Some(next_hops)]
       IN /\ inbound' = [inbound EXCEPT ![n] =
                            Append(@, [peer_id |-> p, message |-> parsed])]
          /\ dispatched' = IF parsed.message_id = NONE THEN dispatched
                           ELSE [dispatched EXCEPT ![n][parsed.message_id] = @ + 1]
          /\ IF relay
             THEN \E targets \in select_peers_static(peers[n], RelayFanout(relayedMsg), p) :
                     /\ chan' = SendAll(chan, n, targets, relayedMsg)
                     /\ relayed' = IF targets = {} \/ parsed.message_id = NONE
                                   THEN relayed
                                   ELSE [relayed EXCEPT ![n][parsed.message_id] = @ + 1]
             ELSE UNCHANGED <<chan, relayed>>
    /\ reader' = [reader EXCEPT ![<<p, n>>] = <<>>]
    /\ UNCHANGED <<now, peers, seen, minted>>

\* Deliver with a relayed copy that keeps the hops_left it came with
Deliver_same_hops(n, p) ==
    /\ reader[<<p, n>>] # <<>>
    /\ LET parsed == reader[<<p, n>>][1]
           next_hops == unwrap_or(parsed.hops_left, default_hops) - 1
           relay == should_relay_message(parsed) /\ next_hops >= 0
           relayedMsg == parsed
       IN /\ inbound' = [inbound EXCEPT ![n] =
                            Append(@, [peer_id |-> p, message |-> parsed])]
          /\ dispatched' = IF parsed.message_id = NONE THEN dispatched
                           ELSE [dispatched EXCEPT ![n][parsed.message_id] = @ + 1]
          /\ IF relay
             THEN \E targets \in select_peers_static(peers[n], RelayFanout(relayedMsg), p) :
                     /\ chan' = SendAll(chan, n, targets, relayedMsg)
                     /\ relayed' = IF targets = {} \/ parsed.message_id = NONE
                                   THEN relayed
                                   ELSE [relayed EXCEPT ![n][parsed.message_id] = @ + 1]
             ELSE UNCHANGED <<chan, relayed>>
    /\ reader' = [reader EXCEPT ![<<p, n>>] = <<>>]
    /\ UNCHANGED <<now, peers, seen, minted>>

\* the rest of the loop body for a frame that is processed: the hand-over to
\* the dispatcher and the relay
Deliver(n, p) ==
    /\ reader[<<p, n>>] # <<>>
    /\ LET parsed == reader[<<p, n>>][1]
           next_hops == unwrap_or(parsed.hops_left, default_hops) - 1
           relay == should_relay_message(parsed) /\ next_hops >= 0
           relayedMsg == [parsed EXCEPT !.hops_left = Some(next_hops)]
       IN /\ inbound' = [inbound EXCEPT ![n] =
                            Append(@, [peer_id |-> p, message |-> parsed])]
          /\ dispatched' = IF parsed.message_id = NONE THEN dispatched
                           ELSE [dispatched EXCEPT ![n][parsed.message_id] = @ + 1]
          /\ IF relay
             THEN \E targets \in select_peers_static(peers[n], RelayFanout(relayedMsg), p) :
                     /\ chan' = SendAll(chan, n, targets, relayedMsg)
                     /\ relayed' = IF targets = {} \/ parsed.message_id = NONE
                                   THEN relayed
                                   ELSE [relayed EXCEPT ![n][parsed.message_id] = @ + 1]
             ELSE UNCHANGED <<chan, relayed>>
    /\ reader' = [reader EXCEPT ![<<p, n>>] = <<>>]
    /\ UNCHANGED <<now, peers, seen, minted>>

Tick ==
    /\ now < MaxTime * TickMs
    /\ now' = now + TickMs
    /\ UNCHANGED <<peers, chan, reader, seen, inbound, minted, dispatched, relayed>>

\* the peer tables with one handle for each connection of edges, each under the
\* name of the peer at its other end
PeerTables(edges) ==
    [n \in Nodes |->
        [p \in {q \in Nodes : {n, q} \in edges} |-> [rtt |-> None]]]

Triangle == {{"node_a", "node_b"}, {"node_b", "node_c"}, {"node_a", "node_c"}}
Pair == {{"node_a", "node_b"}}

InitMesh(edges) ==
    /\ now = 0
    /\ peers = PeerTables(edges)
    /\ chan = [l \in Links |-> <<>>]
    /\ reader = [l \in Links |-> <<>>]
    /\ seen = [n \in Nodes |-> EmptyFn]
    /\ inbound = [n \in Nodes |-> <<>>]
    /\ minted = 0
    /\ dispatched = [n \in Nodes |-> [id \in MsgIds |-> 0]]
    /\ relayed = [n \in Nodes |-> [id \in MsgIds |-> 0]]

\* ----------------------------------------------------------- TaskBazaar
voting_window_ms == 5000
Bounty == 2             \* the bounty of the published task
Descriptions == {"solve"}
Solution == [description |-> "Auto-solved by TaskWorker", code_len |-> 12]

NewTask(description, bounty, publisher) ==
    [task_id |-> "", description |-> description, task_type |-> NONE,
     bounty |-> [amount |-> bounty, token |-> "CLAW"], publisher |-> publisher,
     status |-> "open", submissions |-> <<>>, bids |-> <<>>,
     voting_started_at |-> None, assigned_to |-> NONE, winner |-> NONE]

TaskBid(node_id, amount, timestamp) ==
    [node_id |-> node_id, amount |-> amount, timestamp |-> timestamp]

\* str::trim on the descriptions that are drawn: a blank one trims to nothing
trim(description) == IF description = " " THEN "" ELSE description

publish_task_insert_first(node_id, ts, s, task, fresh_id) ==
    IF trim(task.description) = "" THEN [tasks |-> ts, s |-> s, ok |-> FALSE, val |-> NONE]
    ELSE IF task.bounty.amount <= 0 THEN [tasks |-> ts, s |-> s, ok |-> FALSE, val |-> NONE]
    ELSE
    LET task_id == IF task.task_id = "" THEN fresh_id ELSE task.task_id
        publisher == IF task.publisher = "" THEN node_id ELSE task.publisher
        token == IF task.bounty.token = "" THEN "CLAW" ELSE task.bounty.token
        t1 == [task EXCEPT !.task_id = task_id, !.publisher = publisher,
                           !.bounty.token = token, !.status = "open",
                           !.submissions = <<>>, !.bids = <<>>]
        ts1 == (task_id :> t1) @@ ts
        acc == ensure_account(s, publisher, random_account_id(s))
    IN IF ~acc.ok THEN [tasks |-> ts1, s |-> acc.s, ok |-> FALSE, val |-> NONE]
       ELSE LET l == lock_escrow(acc.s, task_id, acc.val.account_id,
                                 task.bounty.amount, token)
            IN IF ~l.ok THEN [tasks |-> ts1, s |-> l.s, ok |-> FALSE, val |-> NONE]
               ELSE [tasks |-> ts1, s |-> l.s, ok |-> TRUE, val |-> task_id]

\* fresh_id is the id drawn by random_hex
publish_task(node_id, ts, s, task, fresh_id) ==
    IF trim(task.description) = "" THEN [tasks |-> ts, s |-> s, ok |-> FALSE, val |-> NONE]
    ELSE IF task.bounty.amount <= 0 THEN [tasks |-> ts, s |-> s, ok |-> FALSE, val |-> NONE]
    ELSE
    LET task_id == IF task.task_id = "" THEN fresh_id ELSE task.task_id
        publisher == IF task.publisher = "" THEN node_id ELSE task.publisher
        token == IF task.bounty.token = "" THEN "CLAW" ELSE task.bounty.token
        t1 == [task EXCEPT !.task_id = task_id, !.publisher = publisher,
                           !.bounty.token = token, !.status = "open",
                           !.submissions = <<>>, !.bids = <<>>]
        acc == ensure_account(s, publisher, random_account_id(s))
    IN IF ~acc.ok THEN [tasks |-> ts, s |-> acc.s, ok |-> FALSE, val |-> NONE]
       ELSE LET l == lock_escrow(acc.s, task_id, acc.val.account_id,
                                 task.bounty.amount, token)
            IN IF ~l.ok THEN [tasks |-> ts, s |-> l.s, ok |-> FALSE, val |-> NONE]
               ELSE [tasks |-> (task_id :> t1) @@ ts, s |-> l.s, ok |-> TRUE,
                     val |-> task_id]

handle_new_task_overwrite(ts, task) ==
    (task.task_id :> [task EXCEPT !.status = "open", !.submissions = <<>>,
                                  !.bids = <<>>]) @@ ts

handle_new_task(ts, task) ==
    IF task.task_id \in DOMAIN ts THEN ts
    ELSE (task.task_id :> [task EXCEPT !.status = "open", !.submissions = <<>>,
                                       !.bids = <<>>]) @@ ts

add_bid_always_push(ts, task_id, bid, t) ==
    IF task_id \notin DOMAIN ts THEN <<ts, None>>
    ELSE
    LET task == ts[task_id]
        t1 == [task EXCEPT !.bids = Append(@, bid)]
        t2 == IF t1.status = "open"
              THEN [t1 EXCEPT !.status = "voting", !.voting_started_at = Some(t)]
              ELSE t1
    IN <<(task_id :> t2) @@ ts, Some(t2)>>

\* <<tasks, Some(task) or None>>
add_bid(ts, task_id, bid, t) ==
    IF task_id \notin DOMAIN ts THEN <<ts, None>>
    ELSE
    LET task == ts[task_id] IN
    IF \E i \in 1 .. Len(task.bids) : task.bids[i].node_id = bid.node_id
    THEN <<ts, Some(task)>>
    ELSE LET t1 == [task EXCEPT !.bids = Append(@, bid)]
             t2 == IF t1.status = "open"
                   THEN [t1 EXCEPT !.status = "voting", !.voting_started_at = Some(t)]
                   ELSE t1
         IN <<(task_id :> t2) @@ ts, Some(t2)>>

\* updates is the JSON object of the call: a function from the keys it carries
update_task(ts, task_id, updates) ==
    IF task_id \notin DOMAIN ts THEN ts
    ELSE
    LET task == ts[task_id]
        t1 == IF "status" \in DOMAIN updates
              THEN [task EXCEPT !.status = updates["status"]] ELSE task
        t2 == IF "bids" \in DOMAIN updates
              THEN [t1 EXCEPT !.bids = updates["bids"]] ELSE t1
        t3 == IF "assigned_to" \in DOMAIN updates
              THEN [t2 EXCEPT !.assigned_to = updates["assigned_to"]] ELSE t2
        t4 == IF "voting_started_at" \in DOMAIN updates
              THEN [t3 EXCEPT !.voting_started_at = Some(updates["voting_started_at"])]
              ELSE t3
    IN (task_id :> t4) @@ ts

determine_winner_by_amount(task) ==
    IF task.bids = <<>> THEN None
    ELSE LET Before(a, b) == a.amount < b.amount
             i == CHOOSE i \in 1 .. Len(task.bids) :
                     /\ \A j \in 1 .. Len(task.bids) : ~Before(task.bids[j], task.bids[i])
                     /\ \A j \in 1 .. (i - 1) : Before(task.bids[i], task.bids[j])
         IN Some(task.bids[i])

\* the first bid of the stable sort by amount, then timestamp
determine_winner(task) ==
    IF task.bids = <<>> THEN None
    ELSE LET Before(a, b) == \/ a.amount < b.amount
                             \/ a.amount = b.amount /\ a.timestamp < b.timestamp
             i == CHOOSE i \in 1 .. Len(task.bids) :
                     /\ \A j \in 1 .. Len(task.bids) : ~Before(task.bids[j], task.bids[i])
                     /\ \A j \in 1 .. (i - 1) : Before(task.bids[i], task.bids[j])
         IN Some(task.bids[i])

validate_solution(task, solution) ==
    IF "code_len" \notin DOMAIN solution /\ "description" \notin DOMAIN solution
    THEN FALSE
    ELSE IF task.task_type = "code" /\ "code_len" \in DOMAIN solution
    THEN solution.code_len > 10
    ELSE TRUE

\* ok is Result::is_ok, val the "success" of the returned object
submit_solution(ts, done, s, task_id, solution, solver_node_id) ==
    IF task_id \notin DOMAIN ts
    THEN [tasks |-> ts, completed |-> done, s |-> s, ok |-> FALSE, val |-> FALSE]
    ELSE
    LET task == ts[task_id] IN
    IF task.status # "open" /\ task.status # "assigned"
    THEN [tasks |-> ts, completed |-> done, s |-> s, ok |-> FALSE, val |-> FALSE]
    ELSE IF task_id \in done
    THEN [tasks |-> ts, completed |-> done, s |-> s, ok |-> TRUE, val |-> FALSE]
    ELSE IF ~validate_solution(task, solution)
    THEN [tasks |-> ts, completed |-> done, s |-> s, ok |-> TRUE, val |-> FALSE]
    ELSE
    LET t1 == [task EXCEPT !.status = "completed", !.winner = solver_node_id]
        ts1 == (task_id :> t1) @@ ts
        done1 == done \cup {task_id}
        acc == ensure_account(s, solver_node_id, random_account_id(s))
    IN IF ~acc.ok
       THEN [tasks |-> ts1, completed |-> done1, s |-> acc.s, ok |-> FALSE, val |-> FALSE]
       ELSE LET r == release_escrow(acc.s, task_id, acc.val.account_id)
            IN [tasks |-> ts1, completed |-> done1, s |-> r.s, ok |-> r.ok,
                val |-> r.ok]

\* ------------------------------------------------- dispatcher and worker
\* store_capsule and index_capsule.  A capsule carries its tags and the tokens
\* of its content; a posting list is the stored Vec of asset ids.  order gives,
\* for each token, the order in which the HashSet of ids is iterated when the
\* list is written back.
to_ascii_lowercase(tag) == IF tag = "Rust" THEN "rust" ELSE tag

CapsuleTokens(capsule) ==
    {to_ascii_lowercase(tag) : tag \in capsule.tags} \cup capsule.content

get_indexed_ids(s, token) ==
    IF token \in DOMAIN s.capsule_index
    THEN {s.capsule_index[token][i] : i \in 1 .. Len(s.capsule_index[token])}
    ELSE {}

\* the ids of a set in the order of a sequence that enumerates them
InOrder(ids, seq) == SelectSeq(seq, LAMBDA id : id \in ids)

store_capsule_push(s, capsule, order) ==
    LET asset_id == Sha256(capsule)
        tokens == CapsuleTokens(capsule)
        s1 == [s EXCEPT !.capsules = (asset_id :> capsule) @@ @]
        posting(token) == IF token \in DOMAIN s1.capsule_index
                          THEN s1.capsule_index[token] ELSE <<>>
    IN Ok([s1 EXCEPT !.capsule_index =
              [token \in tokens |-> Append(posting(token), asset_id)] @@ @],
          asset_id)

store_capsule(s, capsule, order) ==
    LET asset_id == Sha256(capsule)
        tokens == CapsuleTokens(capsule)
        s1 == [s EXCEPT !.capsules = (asset_id :> capsule) @@ @]
    IN Ok([s1 EXCEPT !.capsule_index =
              [token \in tokens |->
                  InOrder(get_indexed_ids(s1, token) \cup {asset_id}, order[token])]
              @@ @],
          asset_id)

\* the iteration orders a HashSet of the ids of these capsules can have, one
\* for each of the tokens
HashOrders(tokens, capsules) ==
    LET ids == {Sha256(capsule) : capsule \in capsules}
        seqs == {f \in [1 .. Cardinality(ids) -> ids] :
                    \A i, j \in 1 .. Cardinality(ids) : f[i] = f[j] => i = j}
    IN [tokens -> seqs]

\* the capsules that are gossiped
Capsules == {[tags |-> {"rust"}, content |-> {"mesh"}]}

\* handle_inbound: <<store, tasks>> of the node after the message
handle_inbound(s, ts, message, t, order) ==
    CASE message.type = "capsule" ->
            <<store_capsule(s, message.payload, order).s, ts>>
      [] message.type = "task" ->
            <<s, handle_new_task(ts, message.payload)>>
      [] message.type = "task_bid" ->
            IF message.payload.taskId = "" THEN <<s, ts>>
            ELSE LET r == add_bid(ts, message.payload.taskId, message.payload.bid, t)
                 IN IF r[2] # None /\ r[2][1].voting_started_at = None
                    THEN <<s, update_task(r[1], message.payload.taskId,
                                          [voting_started_at |-> t])>>
                    ELSE <<s, r[1]>>
      [] message.type = "task_assigned" ->
            IF message.payload.taskId = "" THEN <<s, ts>>
            ELSE <<s, update_task(ts, message.payload.taskId,
                                  [status |-> "assigned",
                                   assigned_to |-> message.payload.assignedTo])>>
      [] message.type = "task_completed" ->
            IF message.payload.taskId = "" THEN <<s, ts>>
            ELSE <<s, update_task(ts, message.payload.taskId,
                                  [status |-> "completed"])>>
      [] OTHER -> <<s, ts>>

\* one turn of the dispatcher loop of main
Dispatch(n) ==
    /\ inbound[n] # <<>>
    /\ \E order \in HashOrders(UNION {CapsuleTokens(c) : c \in Capsules}, Capsules) :
          LET r == handle_inbound(stores[n], tasks[n], Head(inbound[n]).message,
                                  now, order)
          IN /\ stores' = [stores EXCEPT ![n] = r[1]]
             /\ tasks' = [tasks EXCEPT ![n] = r[2]]
    /\ inbound' = [inbound EXCEPT ![n] = Tail(@)]
    /\ UNCHANGED <<now, peers, chan, reader, seen, minted, dispatched, relayed,
                   completed_tasks, worker>>

\* the publish_task endpoint of the web server
PublishTask(n, lim) ==
    \E fresh_id \in TaskIds, description \in Descriptions :
        /\ \A m \in Nodes : fresh_id \notin DOMAIN tasks[m]
        /\ minted < Len(MsgIdPool)
        /\ LET r == publish_task(n, tasks[n], stores[n],
                                 NewTask(description, Bounty, n), fresh_id)
           IN /\ stores' = [stores EXCEPT ![n] = r.s]
              /\ tasks' = [tasks EXCEPT ![n] = r.tasks]
              /\ IF r.ok
                 THEN broadcast(n, WireMessage("task", r.tasks[r.val], NONE,
                                               Some(task_hops)), lim)
                 ELSE UNCHANGED <<seen, chan, minted>>
        /\ UNCHANGED <<now, peers, reader, inbound, dispatched, relayed,
                       completed_tasks, worker>>

\* get_tasks is the snapshot the worker loops over
Snapshot(n) == tasks[n]

\* TaskWorker::check_tasks up to the call of submit_bid.  A pass of check_tasks
\* that finds no task to bid on changes nothing and is no step.
WorkerCheckTasks(n) ==
    /\ worker[n].pc = "idle"
    /\ \E t \in DOMAIN Snapshot(n) :
          /\ Snapshot(n)[t].status = "open"
          /\ t \notin worker[n].active_tasks
          /\ t \notin worker[n].bidding_tasks
          /\ worker' = [worker EXCEPT ![n].pc = "submit_bid",
                                      ![n].task = <<Snapshot(n)[t]>>]
    /\ UNCHANGED <<now, peers, chan, reader, seen, inbound, minted, dispatched,
                   relayed, stores, tasks, completed_tasks>>

\* TaskWorker::submit_bid
WorkerSubmitBid(n, lim) ==
    /\ worker[n].pc = "submit_bid"
    /\ minted < Len(MsgIdPool)
    /\ LET task == worker[n].task[1]
           bid == TaskBid(n, (task.bounty.amount * 9) \div 10, now)
           r == add_bid(tasks[n], task.task_id, bid, now)
       IN /\ worker' = [worker EXCEPT ![n].pc = "idle",
                                      ![n].task = <<>>,
                                      ![n].bidding_tasks = @ \cup {task.task_id}]
          /\ tasks' = [tasks EXCEPT ![n] = r[1]]
          /\ IF r[2] # None
             THEN broadcast(n, WireMessage("task_bid",
                                 [taskId |-> task.task_id, bid |-> bid],
                                 NONE, Some(4)), lim)
             ELSE UNCHANGED <<seen, chan, minted>>
    /\ UNCHANGED <<now, peers, reader, inbound, dispatched, relayed, stores,
                   completed_tasks>>

\* TaskWorker::process_voting up to the choice of a task whose vote has aged.
\* A pass that finds none changes nothing and is no step.
WorkerProcessVoting(n) ==
    /\ worker[n].pc = "idle"
    /\ LET Started(task) ==
               unwrap_or(task.voting_started_at,
                         IF task.bids = <<>> THEN 0 ELSE task.bids[1].timestamp)
       IN \E t \in DOMAIN Snapshot(n) :
             /\ Snapshot(n)[t].status = "voting"
             /\ Snapshot(n)[t].publisher = n
             /\ now - Started(Snapshot(n)[t]) >= voting_window_ms
             /\ worker' = [worker EXCEPT ![n].pc = "assign",
                                         ![n].task = <<Snapshot(n)[t]>>]
    /\ UNCHANGED <<now, peers, chan, reader, seen, inbound, minted, dispatched,
                   relayed, stores, tasks, completed_tasks>>

\* process_voting from determine_winner to the broadcast of task_assigned
WorkerAssign(n, lim) ==
    /\ worker[n].pc = "assign"
    /\ minted < Len(MsgIdPool)
    /\ LET task == worker[n].task[1]
           winner == determine_winner(task)
       IN IF winner = None
          THEN /\ worker' = [worker EXCEPT ![n].pc = "idle", ![n].task = <<>>]
               /\ UNCHANGED <<tasks, seen, chan, minted>>
          ELSE /\ tasks' = [tasks EXCEPT ![n] =
                               update_task(@, task.task_id,
                                           [status |-> "assigned",
                                            assigned_to |-> winner[1].node_id])]
               /\ broadcast(n, WireMessage("task_assigned",
                                  [taskId |-> task.task_id,
                                   assignedTo |-> winner[1].node_id],
                                  NONE, Some(4)), lim)
               /\ worker' =
                    IF winner[1].node_id = n
                    THEN [worker EXCEPT ![n].pc = "complete_task",
                                        ![n].task = <<task>>,
                                        ![n].active_tasks = @ \cup {task.task_id}]
                    ELSE [worker EXCEPT ![n].pc = "idle",
                                        ![n].task = <<>>,
                                        ![n].bidding_tasks = @ \ {task.task_id}]
    /\ UNCHANGED <<now, peers, reader, inbound, dispatched, relayed, stores,
                   completed_tasks>>

\* TaskWorker::complete_task
WorkerCompleteTask(n, lim) ==
    /\ worker[n].pc = "complete_task"
    /\ minted < Len(MsgIdPool)
    /\ LET task_id == worker[n].task[1].task_id
           r == submit_solution(tasks[n], completed_tasks[n], stores[n], task_id,
                                Solution, n)
       IN /\ tasks' = [tasks EXCEPT ![n] = r.tasks]
          /\ completed_tasks' = [completed_tasks EXCEPT ![n] = r.completed]
          /\ stores' = [stores EXCEPT ![n] = r.s]
          /\ IF r.ok
             THEN broadcast(n, WireMessage("task_completed",
                                 [taskId |-> task_id, winner |-> n],
                                 NONE, Some(4)), lim)
             ELSE UNCHANGED <<seen, chan, minted>>
          /\ worker' = [worker EXCEPT ![n].pc = "idle", ![n].task = <<>>,
                                      ![n].active_tasks = @ \ {task_id}]
    /\ UNCHANGED <<now, peers, reader, inbound, dispatched, relayed>>

\* the Store of a node after Start: opened, with the account of the node
StartedStore(node_id, is_genesis_node, operator) ==
    LET s == open(is_genesis_node, operator)
    IN ensure_account(s, node_id, random_account_id(s)).s

\* the Store of the genesis node: init --genesis created the operator account,
\* Start reopened the store with it, and the operator has moved amount out of
\* the genesis account to itself
FundedStore(node_id, amount) ==
    LET s0 == StartedStore(node_id, TRUE, NONE)
        operator == get_account_id_by_node(s0, node_id)
        s1 == [s0 EXCEPT !.genesis_operator_account_id = operator]
    IN transfer(s1, GenesisAccount, operator, amount, operator).s

IdleBazaar ==
    /\ tasks = [n \in Nodes |-> EmptyFn]
    /\ completed_tasks = [n \in Nodes |-> {}]
    /\ worker = [n \in Nodes |-> [pc |-> "idle", task |-> <<>>,
                                  bidding_tasks |-> {}, active_tasks |-> {}]]

\* nothing of the connection and locking specifications is in use
IdleConn ==
    /\ mutex = EmptyFn
    /\ pc = EmptyFn
    /\ dht = EmptyFn
    /\ arrived = EmptyFn
    /\ handled = EmptyFn

IdleStore ==
    /\ store = open(FALSE, NONE)
    /\ last = [op |-> "open", from |-> NONE, operator |-> NONE, ok |-> TRUE,
               val |-> NONE]

\* ------------------------------------------------ gossip specification
Origins == {"node_a"}

\* MeshNode::broadcast_capsule
BroadcastCapsule(n, lim) ==
    \E capsule \in Capsules :
        /\ minted < MaxMsgs
        /\ broadcast(n, WireMessage("capsule", capsule, NONE, Some(default_hops)), lim)
        /\ UNCHANGED <<now, peers, reader, inbound, dispatched, relayed>>

InitGossip ==
    /\ InitMesh(Triangle)
    /\ stores = [n \in Nodes |-> StartedStore(n, FALSE, NONE)]
    /\ IdleBazaar
    /\ IdleConn
    /\ IdleStore

NextGossip ==
    \/ \E n \in Origins : BroadcastCapsule(n, ScaledLimits)
                        /\ UNCHANGED <<storeVars, bazaarVars, connVars>>
    \/ \E l \in Links : ReadFrame(l[2], l[1], ScaledLimits)
                        /\ UNCHANGED <<storeVars, bazaarVars, connVars>>
    \/ \E l \in Links : Deliver(l[2], l[1]) /\ UNCHANGED <<storeVars, bazaarVars, connVars>>
    \/ \E n \in Nodes : Dispatch(n) /\ UNCHANGED <<storeVars, connVars>>
    \/ Tick /\ UNCHANGED <<storeVars, bazaarVars, connVars>>

SpecGossip == InitGossip /\ [][NextGossip]_vars

\* ------------------------------------------------ bazaar specification
InitBazaar ==
    /\ InitMesh(Pair)
    /\ stores = [n \in Nodes |->
                    IF n = LocalNode THEN FundedStore(n, Bounty)
                    ELSE StartedStore(n, FALSE, NONE)]
    /\ IdleBazaar
    /\ IdleConn
    /\ IdleStore

NextBazaar ==
    \/ \E n \in Nodes : PublishTask(n, ProgramLimits) /\ UNCHANGED <<storeVars, connVars>>
    \/ \E l \in Links : ReadFrame(l[2], l[1], ProgramLimits)
                        /\ UNCHANGED <<storeVars, bazaarVars, connVars>>
    \/ \E l \in Links : Deliver(l[2], l[1]) /\ UNCHANGED <<storeVars, bazaarVars, connVars>>
    \/ \E n \in Nodes : Dispatch(n) /\ UNCHANGED <<storeVars, connVars>>
    \/ \E n \in Nodes : WorkerCheckTasks(n) /\ UNCHANGED <<storeVars, connVars>>
    \/ \E n \in Nodes : WorkerSubmitBid(n, ProgramLimits) /\ UNCHANGED <<storeVars, connVars>>
    \/ \E n \in Nodes : WorkerProcessVoting(n) /\ UNCHANGED <<storeVars, connVars>>
    \/ \E n \in Nodes : WorkerAssign(n, ProgramLimits) /\ UNCHANGED <<storeVars, connVars>>
    \/ \E n \in Nodes : WorkerCompleteTask(n, ProgramLimits) /\ UNCHANGED <<storeVars, connVars>>
    \/ Tick /\ UNCHANGED <<storeVars, bazaarVars, connVars>>

SpecBazaar == InitBazaar /\ [][NextBazaar]_vars

\* ----------------------------------------------- inbound specification
\* node_a with the connection to node_b up; what node_b sends is not
\* constrained: each of its task messages may arrive, once, at any time
EnvTask == [NewTask("solve", Bounty, "node_b") EXCEPT !.task_id = "task_1"]

EnvFrames ==
    {WireMessage("task", EnvTask, "e1", Some(0)),
     WireMessage("task_bid",
                 [taskId |-> "task_1", bid |-> TaskBid("node_b", 1, 0)],
                 "e2", Some(0)),
     WireMessage("task_assigned",
                 [taskId |-> "task_1", assignedTo |-> "node_b"], "e3", Some(0)),
     WireMessage("task_completed",
                 [taskId |-> "task_1", winner |-> "node_b"], "e4", Some(0))}

\* a line of the connection from p reaches the read loop of n
Arrive(n, p) ==
    \E frame \in EnvFrames :
        /\ p \in DOMAIN peers[n]
        /\ frame.message_id \notin DOMAIN seen[n]
        /\ \A i \in 1 .. Len(chan[<<p, n>>]) :
              chan[<<p, n>>][i].message_id # frame.message_id
        /\ chan' = [chan EXCEPT ![<<p, n>>] = Append(@, frame)]
        /\ UNCHANGED <<now, peers, reader, seen, inbound, minted, dispatched,
                       relayed>>

InitInbound == InitBazaar

NextInbound ==
    \/ Arrive(LocalNode, "node_b") /\ UNCHANGED <<storeVars, bazaarVars, connVars>>
    \/ ReadFrame(LocalNode, "node_b", ProgramLimits)
          /\ UNCHANGED <<storeVars, bazaarVars, connVars>>
    \/ Deliver(LocalNode, "node_b") /\ UNCHANGED <<storeVars, bazaarVars, connVars>>
    \/ Dispatch(LocalNode) /\ UNCHANGED <<storeVars, connVars>>
    \/ PublishTask(LocalNode, ProgramLimits) /\ UNCHANGED <<storeVars, connVars>>
    \/ WorkerCheckTasks(LocalNode) /\ UNCHANGED <<storeVars, connVars>>
    \/ WorkerSubmitBid(LocalNode, ProgramLimits) /\ UNCHANGED <<storeVars, connVars>>
    \/ WorkerProcessVoting(LocalNode) /\ UNCHANGED <<storeVars, connVars>>
    \/ WorkerAssign(LocalNode, ProgramLimits) /\ UNCHANGED <<storeVars, connVars>>
    \/ WorkerCompleteTask(LocalNode, ProgramLimits) /\ UNCHANGED <<storeVars, connVars>>
    \/ Tick /\ UNCHANGED <<storeVars, bazaarVars, connVars>>

SpecInbound == InitInbound /\ [][NextInbound]_vars

\* ------------------------------------------------- store specification
\* the record of a call: what was called and what it returned; from and operator
\* are kept for transfer only
Call(op, from, operator, r) ==
    [op |-> op, from |-> from, operator |-> operator, ok |-> r.ok, val |-> r.val]

OpsRoom(s) == Cardinality(DOMAIN s.ledger) + s.imports < MaxOps

InitStore ==
    /\ \E g \in BOOLEAN, operator \in {NONE, "acct_1"} :
           store = open(g, operator)
    /\ last = [op |-> "open", from |-> NONE, operator |-> NONE, ok |-> TRUE,
               val |-> NONE]
    /\ InitMesh({})
    /\ stores = [n \in Nodes |-> open(FALSE, NONE)]
    /\ IdleBazaar
    /\ IdleConn

EnsureAccount ==
    \E node_id \in NodeIds, id \in FreshAccountIds :
        /\ id = random_account_id(store)
        /\ LET r == ensure_account(store, node_id, id)
           IN /\ store' = r.s
              /\ last' = Call("ensure_account", NONE, NONE, [r EXCEPT !.val = NONE])

ImportAccount ==
    \E node_id \in {LocalNode}, id \in ImportIds, balance \in ImportBalances :
        /\ OpsRoom(store)
        /\ LET payload == [account_id |-> id, node_id |-> "node_b",
                           imported |-> FALSE, balance |-> balance]
               r == import_account(store, node_id, payload)
           IN /\ store' = r.s
              /\ last' = Call("import_account", NONE, NONE, [r EXCEPT !.val = NONE])

Transfer ==
    \E from \in AccountIds, to \in AccountIds, amount \in Amounts,
       operator \in {NONE, "acct_1", "acct_2"} :
        /\ OpsRoom(store)
        /\ LET r == transfer(store, from, to, amount, operator)
           IN /\ store' = r.s
              /\ last' = Call("transfer", from, operator, r)

LockEscrow ==
    \E task_id \in TaskIds, from \in AccountIds, amount \in Amounts :
        /\ OpsRoom(store)
        /\ LET r == lock_escrow(store, task_id, from, amount, "CLAW")
           IN /\ store' = r.s
              /\ last' = Call("lock_escrow", NONE, NONE, r)

ReleaseEscrow ==
    \E task_id \in TaskIds, winner \in AccountIds :
        /\ OpsRoom(store)
        /\ LET r == release_escrow(store, task_id, winner)
           IN /\ store' = r.s
              /\ last' = Call("release_escrow", NONE, NONE, r)

NextStore ==
    \/ EnsureAccount /\ UNCHANGED <<meshVars, bazaarVars, connVars>>
    \/ ImportAccount /\ UNCHANGED <<meshVars, bazaarVars, connVars>>
    \/ Transfer /\ UNCHANGED <<meshVars, bazaarVars, connVars>>
    \/ LockEscrow /\ UNCHANGED <<meshVars, bazaarVars, connVars>>
    \/ ReleaseEscrow /\ UNCHANGED <<meshVars, bazaarVars, connVars>>

SpecStore == InitStore /\ [][NextStore]_vars

\* ------------------------------------------------------- store: claims
Balances(s) == [id \in DOMAIN s.accounts |-> s.accounts[id].balance]

TotalBalances(s) == SumOver(Balances(s), DOMAIN s.accounts)

TotalEscrows(s) ==
    SumOver([t \in DOMAIN s.escrows |-> s.escrows[t].amount], DOMAIN s.escrows)

MintEntries(s) == {i \in DOMAIN s.ledger : s.ledger[i].entry_type = "mint"}

TotalMinted(s) ==
    SumOver([i \in DOMAIN s.ledger |-> s.ledger[i].amount], MintEntries(s))

\* the account the code treats as the genesis account: the one indexed under
\* node_genesis, acct_genesis while none is indexed
GenesisAccountOf(s) ==
    IF get_account_id_by_node(s, GenesisNode) # NONE
    THEN get_account_id_by_node(s, GenesisNode)
    ELSE GenesisAccount

Operators == {NONE, "acct_1", "acct_2"}

\* C1: in every reachable state of a Store, the sum of all balances plus the sum
\* of all escrow amounts equals the total amount of the mint ledger entries.
C1_Conservation ==
    TotalBalances(store) + TotalEscrows(store) = TotalMinted(store)

\* C6: the ledger's indices are exactly 0..n-1, entry 0 has the empty string as
\* prev_hash and every later entry's prev_hash is the stored hash of the entry
\* before it.
C6_LedgerChain ==
    LET n == Cardinality(DOMAIN store.ledger)
    IN /\ DOMAIN store.ledger = 0 .. (n - 1)
       /\ \A i \in DOMAIN store.ledger :
            /\ store.ledger[i].index = i
            /\ (i = 0) => store.ledger[i].prev_hash = EmptyStr
            /\ (i > 0) => store.ledger[i].prev_hash = store.ledger[i - 1].hash

\* a ledger of three entries, the last appended by an escrow operation
C6_Witness ==
    /\ Cardinality(DOMAIN store.ledger) >= 3
    /\ last.op \in {"lock_escrow", "release_escrow"}
    /\ last.ok

\* C7: a transfer out of the genesis account whose operator is not the
\* configured genesis operator (or with none configured) fails and leaves every
\* balance unchanged; a transfer into the genesis account needs no operator.
C7_GenesisOperator ==
    [][/\ ( /\ last'.op = "transfer"
            /\ last'.from = GenesisAccountOf(store')
            /\ \/ store.genesis_operator_account_id = NONE
               \/ last'.operator # store.genesis_operator_account_id )
          => (~last'.ok /\ Balances(store') = Balances(store))
       /\ \A from \in AccountIds \ {GenesisAccountOf(store)}, amount \in Amounts,
             operator \in Operators :
            transfer(store, from, GenesisAccountOf(store), amount, operator).ok
              = transfer(store, from, GenesisAccountOf(store), amount, NONE).ok
      ]_vars

\* C8: transfer fails if amount <= 0, if either account is missing or if
\* balance(from) < amount, and a failed transfer leaves the accounts, the
\* account-index, the escrow rows and the ledger as they were.
C8_FailedTransferFrame ==
    [][/\ (last'.op = "transfer" /\ ~last'.ok) => store' = store
       /\ \A from \in AccountIds, to \in AccountIds, amount \in Amounts,
             operator \in Operators :
            ( \/ amount <= 0
              \/ ~has_account(store, from)
              \/ ~has_account(store, to)
              \/ store.accounts[from].balance < amount )
            => ~transfer(store, from, to, amount, operator).ok
      ]_vars

\* C9: every account balance is >= 0 in every reachable Store state.
C9_NonNegative ==
    \A id \in DOMAIN store.accounts : store.accounts[id].balance >= 0

\* C10: whenever a Store operation changes the balance stored for an
\* account_id, that operation appends a ledger entry.
C10_BalanceNeedsLedger ==
    [][(\E id \in DOMAIN store.accounts \cap DOMAIN store'.accounts :
            store'.accounts[id].balance # store.accounts[id].balance)
       => Cardinality(DOMAIN store'.ledger) > Cardinality(DOMAIN store.ledger)
      ]_vars

\* ------------------------------------------------ claims on the bazaar
Rank(status) ==
    CASE status = "open" -> 0
      [] status = "voting" -> 1
      [] status = "assigned" -> 2
      [] status = "completed" -> 3
      [] OTHER -> -1

\* C2: the status of a task a node holds only moves forward along
\* open, voting, assigned, completed (so that completed, once entered, is never
\* left and never entered again), whatever the order of the inbound task
\* messages and of the steps of the worker
C2_StatusForward ==
    [][\A n \in Nodes : \A t \in DOMAIN tasks[n] \cap DOMAIN tasks'[n] :
          Rank(tasks'[n][t].status) >= Rank(tasks[n][t].status)]_vars

\* C3: a node hands a message id to its dispatcher at most once, whatever other
\* messages it receives in between
C3_DispatchedOnce ==
    \A n \in Nodes : \A id \in MsgIds : dispatched[n][id] <= 1

\* C4: one broadcast of a relayable message leaves, in the end, no copy in
\* flight, and every node relays it at most once; the second half is the
\* state predicate
C4_RelayedOnce ==
    \A n \in Nodes : \A id \in MsgIds : relayed[n][id] <= 1

\* the gossip specification with every task (reader, dispatcher, clock)
\* scheduled again and again, as the tokio runtime does
SpecGossipFair == SpecGossip /\ WF_vars(NextGossip)

NoCopyInFlight == \A l \in Links : chan[l] = <<>> /\ reader[l] = <<>>

\* the first half of C4: in the end no copy of a broadcast is in flight
C4_Terminates == <>[]NoCopyInFlight

\* nothing is in flight and no worker is in the middle of a pass, and no task
\* is left for a worker to act on
Quiescent ==
    /\ \A l \in Links : chan[l] = <<>> /\ reader[l] = <<>>
    /\ \A n \in Nodes : inbound[n] = <<>> /\ worker[n].pc = "idle"
    /\ \A n \in Nodes : \A t \in DOMAIN tasks[n] :
          tasks[n][t].status \notin {"open", "voting"}

\* the balance of node w in the Store s
BalanceOf(s, w) == IF get_balance(s, w).ok THEN get_balance(s, w).val ELSE 0

\* C5: when the coordinator p has assigned its task to another node w, then in
\* the end the task is completed, its escrow row is gone and the balance of w
\* has grown by the bounty; stated of the states in which everything has come
\* to rest
C5_AssignedWorkerPaid ==
    \A p \in Nodes, w \in Nodes, t \in TaskIds :
        ( /\ p # w
          /\ Quiescent
          /\ t \in DOMAIN tasks[p]
          /\ tasks[p][t].publisher = p
          /\ tasks[p][t].assigned_to = w
          /\ t \in DOMAIN tasks[w]
          /\ tasks[w][t].assigned_to = w )
        => /\ tasks[p][t].status = "completed"
           /\ t \notin DOMAIN stores[p].escrows
           /\ \/ BalanceOf(stores[w], w) >= tasks[p][t].bounty.amount
              \/ BalanceOf(stores[p], w) >= tasks[p][t].bounty.amount

\* ------------------------------------------------- claims, second part
\* C11: the account index is one-to-one: no two node ids are indexed to one
\* account id, and every indexed account id names a stored account whose
\* node_id is the node id it is indexed under
C11_IndexOneToOne ==
    /\ \A n1 \in DOMAIN store.account_index, n2 \in DOMAIN store.account_index :
          store.account_index[n1] = store.account_index[n2] => n1 = n2
    /\ \A n \in DOMAIN store.account_index :
          /\ has_account(store, store.account_index[n])
          /\ store.accounts[store.account_index[n]].node_id = n

\* the ledger entries of one type written for one task
EscrowEntries(s, entry_type, task_id) ==
    {i \in DOMAIN s.ledger : /\ s.ledger[i].entry_type = entry_type
                             /\ s.ledger[i].meta = task_id}

EscrowTotal(s, entry_type, task_id) ==
    SumOver([i \in DOMAIN s.ledger |-> s.ledger[i].amount],
            EscrowEntries(s, entry_type, task_id))

\* what a release that finds a row and a stored winner does: it returns the
\* escrowed amount, credits the winner by it, deletes the row and leaves
\* every other account and row alone
ReleasePays(s, task_id, w, r) ==
    /\ r.ok
    /\ r.val = s.escrows[task_id].amount
    /\ DOMAIN r.s.escrows = DOMAIN s.escrows \ {task_id}
    /\ \A t \in DOMAIN r.s.escrows : r.s.escrows[t] = s.escrows[t]
    /\ DOMAIN r.s.accounts = DOMAIN s.accounts
    /\ \A id \in DOMAIN s.accounts :
          r.s.accounts[id].balance =
              s.accounts[id].balance + (IF id = w THEN r.val ELSE 0)

\* over the whole history no task has more released than was locked for it,
\* and no more releases than locks
PaidOutAtMostOnce ==
    \A t \in TaskIds :
        /\ Cardinality(EscrowEntries(store, "escrow_released", t))
              <= Cardinality(EscrowEntries(store, "escrow_locked", t))
        /\ EscrowTotal(store, "escrow_released", t) + 
              (IF t \in DOMAIN store.escrows THEN store.escrows[t].amount ELSE 0)
              <= EscrowTotal(store, "escrow_locked", t)

\* C12 as stated: release_escrow(task_id, w) with no escrow row returns 0 and
\* changes nothing; with a row it credits w by the escrowed amount, deletes
\* the row and returns the amount, whatever w is; funds of one lock are paid
\* out at most once
C12_ReleaseAlwaysPays ==
    /\ \A t \in TaskIds, w \in AccountIds :
          LET r == release_escrow(store, t, w)
          IN IF t \notin DOMAIN store.escrows
             THEN r.ok /\ r.val = 0 /\ r.s = store
             ELSE r.ok /\ r.val = store.escrows[t].amount
                       /\ t \notin DOMAIN r.s.escrows
    /\ PaidOutAtMostOnce

\* C12, amended: release_escrow(task_id, w) with no escrow row returns 0 and
\* changes nothing; with a row and no stored account w it fails and changes
\* nothing; with a row and a stored account w it credits w by exactly the
\* escrowed amount, deletes the row and returns that amount; over any
\* sequence of calls the funds of one lock_escrow are paid out at most once
C12_ReleaseOnce ==
    /\ \A t \in TaskIds, w \in AccountIds :
          LET r == release_escrow(store, t, w)
          IN IF t \notin DOMAIN store.escrows
             THEN r.ok /\ r.val = 0 /\ r.s = store
             ELSE IF ~has_account(store, w)
             THEN ~r.ok /\ r.s = store
             ELSE ReleasePays(store, t, w, r)
    /\ PaidOutAtMostOnce

\* a release has paid a positive amount and the row is gone
C12_Witness ==
    /\ last.op = "release_escrow"
    /\ last.ok
    /\ last.val > 0
    /\ DOMAIN store.escrows = {}
    /\ \E t \in TaskIds : EscrowEntries(store, "escrow_released", t) # {}

\* ------------------------------------------------ publish specification
\* TaskBazaar::publish_task called on the local node with the requests the
\* HTTP handler can build: any description, any bounty, the publisher left
\* empty or set to another node; the local operator holds 0..GenesisSupply
PublishIds == {"task_1", "task_2"}
PublishDescriptions == {"", " ", "solve"}
Publishers == {"", "node_b"}

PublishCall ==
    \E fresh_id \in PublishIds, description \in PublishDescriptions,
       bounty \in Amounts, publisher \in Publishers :
        /\ fresh_id \notin DOMAIN tasks[LocalNode]
        /\ LET r == publish_task(LocalNode, tasks[LocalNode], stores[LocalNode],
                                 NewTask(description, bounty, publisher), fresh_id)
           IN /\ stores' = [stores EXCEPT ![LocalNode] = r.s]
              /\ tasks' = [tasks EXCEPT ![LocalNode] = r.tasks]
              /\ last' = [op |-> "publish_task", from |-> publisher,
                          operator |-> NONE, ok |-> r.ok, val |-> r.val]
        /\ UNCHANGED <<connVars, store, meshVars, completed_tasks, worker>>

\* the operator moves one token from the genesis account to its own account
\* (transfer_account of the HTTP interface)
FundOperator ==
    LET s == stores[LocalNode]
        operator == get_account_id_by_node(s, LocalNode)
        r == transfer(s, GenesisAccount, operator, 1, operator)
    IN /\ r.ok
       /\ stores' = [stores EXCEPT ![LocalNode] = r.s]
       /\ last' = Call("transfer", GenesisAccount, operator, r)
       /\ UNCHANGED <<connVars, store, meshVars, tasks, completed_tasks, worker>>

InitPublish ==
    /\ InitMesh({})
    /\ \E amount \in 0 .. GenesisSupply :
          stores = [n \in Nodes |->
                       IF n = LocalNode THEN FundedStore(n, amount)
                       ELSE StartedStore(n, FALSE, NONE)]
    /\ IdleBazaar
    /\ IdleConn
    /\ IdleStore

NextPublish ==
    \/ PublishCall
    \/ FundOperator

SpecPublish == InitPublish /\ [][NextPublish]_vars

\* C13: publish_task rejects an empty description and a bounty <= 0; a failed
\* publish_task inserts no task, creates no escrow row and changes no
\* balance; a successful one inserts the task with status open, leaves an
\* escrow row for its task_id holding bounty.amount and lowers the
\* publisher's balance by exactly bounty.amount
C13_PublishAllOrNothing ==
    [][/\ \A fresh_id \in PublishIds, description \in PublishDescriptions,
             bounty \in Amounts, publisher \in Publishers :
            (trim(description) = "" \/ bounty <= 0)
            => ~publish_task(LocalNode, tasks[LocalNode], stores[LocalNode],
                             NewTask(description, bounty, publisher), fresh_id).ok
       /\ last'.op = "publish_task" =>
            LET s == stores[LocalNode]
                s2 == stores'[LocalNode]
            IN IF ~last'.ok
               THEN /\ tasks' = tasks
                    /\ s2.escrows = s.escrows
                    /\ \A id \in DOMAIN s.accounts :
                          /\ id \in DOMAIN s2.accounts
                          /\ s2.accounts[id].balance = s.accounts[id].balance
                    /\ TotalBalances(s2) = TotalBalances(s)
               ELSE LET task_id == last'.val
                        task == tasks'[LocalNode][task_id]
                        account_id == get_account_id_by_node(s2, task.publisher)
                    IN /\ task_id \notin DOMAIN tasks[LocalNode]
                       /\ DOMAIN tasks'[LocalNode]
                             = DOMAIN tasks[LocalNode] \cup {task_id}
                       /\ \A t \in DOMAIN tasks[LocalNode] :
                             tasks'[LocalNode][t] = tasks[LocalNode][t]
                       /\ task.status = "open"
                       /\ task.task_id = task_id
                       /\ task_id \in DOMAIN s2.escrows
                       /\ s2.escrows[task_id].amount = task.bounty.amount
                       /\ has_account(s, account_id)
                       /\ s2.accounts[account_id].balance
                             = s.accounts[account_id].balance - task.bounty.amount
                       /\ \A id \in DOMAIN s.accounts \ {account_id} :
                             s2.accounts[id].balance = s.accounts[id].balance
      ]_vars

\* one publish_task has succeeded and a later one has failed for want of funds
C13_Witness ==
    /\ last.op = "publish_task"
    /\ ~last.ok
    /\ DOMAIN tasks[LocalNode] # {}
    /\ \A t \in DOMAIN tasks[LocalNode] :
          /\ tasks[LocalNode][t].status = "open"
          /\ t \in DOMAIN stores[LocalNode].escrows
    /\ BalanceOf(stores[LocalNode], LocalNode) = 0

\* ------------------------------------------------- winner specification
\* the coordinator has published its task; bids of the other nodes and its
\* own arrive in any order with any of the drawn amounts and timestamps, and
\* determine_winner is applied to the task as it stands
BidAmounts == {1, 2}
BidTimestamps == {0, TickMs}

AddBid ==
    \E t \in DOMAIN tasks[LocalNode], n \in Nodes, amount \in BidAmounts,
       timestamp \in BidTimestamps :
        LET r == add_bid(tasks[LocalNode], t, TaskBid(n, amount, timestamp), now)
        IN /\ r[1] # tasks[LocalNode]
           /\ tasks' = [tasks EXCEPT ![LocalNode] = r[1]]
           /\ last' = [op |-> "add_bid", from |-> n, operator |-> NONE,
                       ok |-> TRUE, val |-> NONE]
           /\ UNCHANGED <<connVars, store, meshVars, stores, completed_tasks, worker>>

DetermineWinner ==
    \E t \in DOMAIN tasks[LocalNode] :
        /\ last' = [op |-> "determine_winner", from |-> t, operator |-> NONE,
                    ok |-> TRUE, val |-> determine_winner(tasks[LocalNode][t])]
        /\ UNCHANGED <<connVars, store, meshVars, bazaarVars>>

InitWinner ==
    /\ InitMesh({})
    /\ LET r == publish_task(LocalNode, EmptyFn, FundedStore(LocalNode, Bounty),
                             NewTask("solve", Bounty, ""), "task_1")
       IN /\ stores = [n \in Nodes |->
                          IF n = LocalNode THEN r.s ELSE StartedStore(n, FALSE, NONE)]
          /\ tasks = [n \in Nodes |-> IF n = LocalNode THEN r.tasks ELSE EmptyFn]
    /\ completed_tasks = [n \in Nodes |-> {}]
    /\ worker = [n \in Nodes |-> [pc |-> "idle", task |-> <<>>,
                                  bidding_tasks |-> {}, active_tasks |-> {}]]
    /\ IdleConn
    /\ IdleStore

NextWinner ==
    \/ AddBid
    \/ DetermineWinner

SpecWinner == InitWinner /\ [][NextWinner]_vars

\* the same bids in another order
Reorderings(bids) ==
    LET n == Len(bids)
        perms == {f \in [1 .. n -> 1 .. n] : \A i, j \in 1 .. n : f[i] = f[j] => i = j}
    IN {[i \in 1 .. n |-> bids[f[i]]] : f \in perms}

\* winner is none iff there is no bid, and else a bid of the list with the
\* least amount and, among the bids of that amount, the least timestamp
WinnerIsMinimal(bids, winner) ==
    /\ winner = None <=> bids = <<>>
    /\ winner # None =>
          /\ \E i \in 1 .. Len(bids) : bids[i] = winner[1]
          /\ \A i \in 1 .. Len(bids) :
                /\ winner[1].amount <= bids[i].amount
                /\ bids[i].amount = winner[1].amount
                      => winner[1].timestamp <= bids[i].timestamp

\* C14 as stated: determine_winner returns none iff the bid list is empty,
\* else a bid of minimal amount and of minimal timestamp among those, and the
\* bid returned does not depend on the order of the bid list
C14_OrderIndependent ==
    \A t \in DOMAIN tasks[LocalNode] :
        LET task == tasks[LocalNode][t]
        IN /\ WinnerIsMinimal(task.bids, determine_winner(task))
           /\ \A bids \in Reorderings(task.bids) :
                 determine_winner([task EXCEPT !.bids = bids])
                     = determine_winner(task)

\* C14, amended: determine_winner returns none iff the bid list is empty, else
\* a bid of minimal amount and of minimal timestamp among those; the amount
\* and the timestamp of the bid returned do not depend on the order of the
\* list, and the bid itself does not either unless several bids share that
\* amount and timestamp, of which the first in the list is returned
C14_WinnerMinimal ==
    \A t \in DOMAIN tasks[LocalNode] :
        LET task == tasks[LocalNode][t]
            winner == determine_winner(task)
            Tied(bids) == {i \in 1 .. Len(bids) :
                              /\ bids[i].amount = winner[1].amount
                              /\ bids[i].timestamp = winner[1].timestamp}
        IN /\ WinnerIsMinimal(task.bids, winner)
           /\ winner # None =>
                 winner[1] = task.bids[CHOOSE i \in Tied(task.bids) :
                                          \A j \in Tied(task.bids) : i <= j]
           /\ \A bids \in Reorderings(task.bids) :
                 LET other == determine_winner([task EXCEPT !.bids = bids])
                 IN /\ WinnerIsMinimal(bids, other)
                    /\ winner # None =>
                          /\ other[1].amount = winner[1].amount
                          /\ other[1].timestamp = winner[1].timestamp
                          /\ Cardinality(Tied(task.bids)) = 1 => other = winner

\* determine_winner was applied to two bids of one amount, the later one
\* first in the list, and returned the earlier one
C14_Witness ==
    /\ last.op = "determine_winner"
    /\ \E t \in DOMAIN tasks[LocalNode] :
          LET bids == tasks[LocalNode][t].bids
          IN /\ Len(bids) = 2
             /\ bids[1].amount = bids[2].amount
             /\ bids[2].timestamp < bids[1].timestamp
             /\ last.val = Some(bids[2])

\* ------------------------------------------------ capsule specification
\* store_capsule called on one Store with capsules that share tokens, some of
\* them stored again
CapsuleInputs ==
    {[tags |-> {"rust"}, content |-> {"mesh"}],
     [tags |-> {"Rust"}, content |-> {"mesh", "node"}],
     [tags |-> {"rust", "p2p"}, content |-> {"node"}]}

\* the ids under which a capsule is stored; the record of a store_capsule call
\* keeps the capsule in from and the ids it was stored under before in operator
StoredAs(s, capsule) == {id \in DOMAIN s.capsules : s.capsules[id] = capsule}

StoreCapsule ==
    \E capsule \in CapsuleInputs :
    \E order \in HashOrders(CapsuleTokens(capsule), CapsuleInputs) :
        LET r == store_capsule(store, capsule, order)
        IN /\ store' = r.s
           /\ last' = [op |-> "store_capsule", from |-> capsule,
                       operator |-> StoredAs(store, capsule),
                       ok |-> r.ok, val |-> r.val]
           /\ UNCHANGED <<meshVars, bazaarVars, connVars>>

InitCapsule ==
    /\ \E g \in BOOLEAN : store = open(g, NONE)
    /\ last = [op |-> "open", from |-> NONE, operator |-> NONE, ok |-> TRUE,
               val |-> NONE]
    /\ InitMesh({})
    /\ stores = [n \in Nodes |-> open(FALSE, NONE)]
    /\ IdleBazaar
    /\ IdleConn

NextCapsule == StoreCapsule

SpecCapsule == InitCapsule /\ [][NextCapsule]_vars

\* how often an id stands in a posting list
Occurrences(list, id) == Cardinality({i \in 1 .. Len(list) : list[i] = id})

\* C15: store_capsule called again with a capsule that is stored returns the
\* asset id of the first call, leaves the capsule table unchanged and leaves
\* every posting list of the capsule's tokens with the asset id exactly once
C15_StoreCapsuleIdempotent ==
    [][(last'.op = "store_capsule" /\ StoredAs(store, last'.from) # {}) =>
          /\ last'.ok
          /\ StoredAs(store, last'.from) = {last'.val}
          /\ store'.capsules = store.capsules
          /\ DOMAIN store'.capsule_index = DOMAIN store.capsule_index
          /\ \A token \in CapsuleTokens(last'.from) :
                /\ token \in DOMAIN store'.capsule_index
                /\ Occurrences(store'.capsule_index[token], last'.val) = 1
          /\ \A token \in DOMAIN store.capsule_index :
                get_indexed_ids(store', token) = get_indexed_ids(store, token)
      ]_vars

\* a capsule that was stored was stored again while another capsule shares
\* one of its posting lists
C15_Witness ==
    /\ last.op = "store_capsule"
    /\ last.operator = {last.val}
    /\ \E token \in CapsuleTokens(last.from) :
          /\ Len(store.capsule_index[token]) = 2
          /\ Occurrences(store.capsule_index[token], last.val) = 1

\* ------------------------------------------------ connection specification
\* node_a has node_b as its bootstrap entry and dials it; each side runs
\* handle_connection for the connection.  A client that is no node of this
\* program is connected to node_a as well and writes frames of its own.  On
\* node_a dht_store and dht_find are called.
dht_k == 8
dht_alpha == 3
dht_max_hops == 6
dht_timeout_ms == 5000

MaxDhtStores == 2       \* dht_store calls of one node
MaxClientFrames == 1    \* frames the client writes

ConnNodes == {"node_a", "node_b"}
Client == "10.0.0.9:52000"
Client2 == "10.0.0.8:52001"

\* remote_key of n's connection with p: the bootstrap entry on the dialing
\* side, the socket address of the peer on the accepting side
RemoteKey(n, p) ==
    CASE n = "node_a" /\ p = "node_b" -> "node_b:4001"
      [] n = "node_b" /\ p = "node_a" -> "10.0.0.1:51000"
      [] OTHER -> p

\* the connections as <<n, p>>: n runs handle_connection for its connection
\* with p
Connections == {<<"node_a", "node_b">>, <<"node_b", "node_a">>, <<"node_a", Client>>}
ConnLinks == Connections \cup {<<c[2], c[1]>> : c \in Connections}

\* the connections of the connection life specification: a second client is
\* connected to node_a
LifeConnections == Connections \cup {<<"node_a", Client2>>}

\* the end of the connection that n holds under remote key addr
Remote(n, addr) == CHOOSE p \in {c[2] : c \in {d \in LifeConnections : d[1] = n}} :
                       RemoteKey(n, p) = addr

\* remote_key.contains(&node_id)
contains(remote_key, node_id) ==
    remote_key \in {node_id, node_id \o ":4001"}

\* peer_id.starts_with("node_")
starts_with_node(peer_id) == peer_id \in Nodes \cup {"node_b:4001"}

PeerHandle(addr) == [rtt |-> None, addr |-> addr]

Reader(n, p) == <<"reader", n, p>>
Writer(n, p) == <<"writer", n, p>>
StoreCall(n) == <<"dht_store", n>>
FindCall(n) == <<"dht_find", n>>
ClientTask == <<"client", Client>>
SendCall(n) == <<"send_to_peer", n>>

\* a value is a JSON array of items or some other JSON value
DhtKeys == {"token:rust"}
Scalar(x) == [array |-> FALSE, items |-> <<x>>]
Array(items) == [array |-> TRUE, items |-> items]
DhtValues == {Array(<<"a1">>), Array(<<"a2">>)}
RequestIds == <<"r1", "r2">>

Frame(type, payload, hops_left, request_id, node_id) ==
    [type |-> type, payload |-> payload, message_id |-> NONE,
     hops_left |-> hops_left, request_id |-> request_id, node_id |-> node_id]

Handshake(node_id) == Frame("handshake", EmptyFn, None, NONE, node_id)

\* the frames the client may write: a handshake that names no node, a value
\* to store, a lookup, an answer to a lookup
ClientFrames ==
    {Handshake(NONE)}
    \cup {Frame("dht_store", [key |-> k, value |-> Scalar("v1")], None, NONE, NONE) :
            k \in DhtKeys}
    \cup {Frame("dht_find", [key |-> k, origin |-> Client], Some(dht_max_hops),
                "rx", NONE) : k \in DhtKeys}
    \cup {Frame("dht_value", [key |-> k, value |-> Scalar("v2")], None, "r1", NONE) :
            k \in DhtKeys}

\* Value::to_string of an item: the JSON text of a string is the string in
\* quotes
to_string(item) == "\"" \o item \o "\""

\* the loop of store_dht_value over new_list: an item whose text is not in
\* seen is pushed and its text joins seen
RECURSIVE push_new(_, _, _)
push_new(existing_list, seen_markers, new_list) ==
    IF new_list = <<>> THEN existing_list
    ELSE LET item == Head(new_list)
             marker == to_string(item)
         IN IF marker \in seen_markers
            THEN push_new(existing_list, seen_markers, Tail(new_list))
            ELSE push_new(Append(existing_list, item), seen_markers \cup {marker},
                          Tail(new_list))

\* store_dht_value with a seen set that the pushed items do not join
store_dht_value_seen_fixed(map, key, value) ==
    IF value.array /\ key \in DOMAIN map /\ map[key].array
    THEN LET old == map[key].items
             fresh == SelectSeq(value.items,
                          LAMBDA item : \A i \in 1 .. Len(old) : old[i] # item)
         IN [map EXCEPT ![key] = Array(old \o fresh)]
    ELSE (key :> value) @@ map

\* MeshNode::store_dht_value on the map of one node
store_dht_value(map, key, value) ==
    IF value.array /\ key \in DOMAIN map /\ map[key].array
    THEN LET old == map[key].items
             markers == {to_string(old[i]) : i \in 1 .. Len(old)}
         IN [map EXCEPT ![key] = Array(push_new(old, markers, value.items))]
    ELSE (key :> value) @@ map

\* the peer sets select_closest_peers can return: the count closest of the
\* peers named node_..., whatever their distances to the key are
select_closest_peers(table, key, count, exclude_peer) ==
    LET candidates == {id \in DOMAIN table \ {exclude_peer} : starts_with_node(id)}
    IN IF count >= Cardinality(candidates) THEN {candidates}
       ELSE {S \in SUBSET candidates : Cardinality(S) = count}

\* send_to_peer_static once the peers mutex is taken: the frame goes to the
\* writer of the connection the handle belongs to; no handle, no frame
SendTo(channels, n, table, peer_id, frame) ==
    IF peer_id \notin DOMAIN table THEN channels
    ELSE LET l == <<n, Remote(n, table[peer_id].addr)>>
         IN [channels EXCEPT ![l] = Append(@, frame)]

RECURSIVE SendToAll(_, _, _, _, _)
SendToAll(channels, n, table, targets, frame) ==
    IF targets = {} THEN channels
    ELSE LET peer_id == CHOOSE id \in targets : TRUE
         IN SendToAll(SendTo(channels, n, table, peer_id, frame), n, table,
                      targets \ {peer_id}, frame)

\* what becomes of a task that calls peers.lock().unwrap() while the mutex is
\* not free: it waits for a holder that never lets go, or it panics on the
\* poisoned mutex
LockFails(n) == mutex[n] # "free"
FailedLock(n) == IF mutex[n] = "held" THEN "blocked" ELSE "panicked"

\* the variables this specification leaves alone
connFrame == <<store, reader, seen, dispatched, relayed, stores, tasks,
               completed_tasks, worker, arrived, handled>>

\* handle_connection up to its read loop: the handle is put into the peer
\* table under the remote key and the handshake is written
Open(n, p) ==
    /\ pc[Reader(n, p)].at = "unconnected"
    /\ IF LockFails(n)
       THEN /\ pc' = [pc EXCEPT ![Reader(n, p)].at = FailedLock(n)]
            /\ UNCHANGED <<peers, chan>>
       ELSE /\ peers' = [peers EXCEPT ![n] =
                            (RemoteKey(n, p) :> PeerHandle(RemoteKey(n, p))) @@ @]
            /\ chan' = [chan EXCEPT ![<<n, p>>] = Append(@, Handshake(n))]
            /\ pc' = [pc EXCEPT ![Reader(n, p)].at = "reading"]
    /\ UNCHANGED <<connFrame, last, now, inbound, minted, mutex, dht>>

\* the client writes a frame
ClientWrite ==
    \E frame \in ClientFrames :
        /\ pc[Reader("node_a", Client)].at # "unconnected"
        /\ pc[ClientTask] < MaxClientFrames
        /\ pc' = [pc EXCEPT ![ClientTask] = @ + 1]
        /\ chan' = [chan EXCEPT ![<<Client, "node_a">>] = Append(@, frame)]
        /\ UNCHANGED <<connFrame, last, now, peers, inbound, minted, mutex, dht>>

\* the reader of n's connection with p holds the next frame
Reading(n, p) ==
    /\ pc[Reader(n, p)].at = "reading"
    /\ chan[<<p, n>>] # <<>>

NextFrame(n, p) == Head(chan[<<p, n>>])

active_peer_id(n, p) ==
    IF pc[Reader(n, p)].peer_id # NONE THEN pc[Reader(n, p)].peer_id
    ELSE RemoteKey(n, p)

\* the frame is handed to the dispatcher (it is of no relayed type)
ToInbound(n, p, frame) ==
    inbound' = [inbound EXCEPT ![n] =
                   Append(@, [peer_id |-> active_peer_id(n, p), message |-> frame])]

\* a handshake that names a node: peer_id is set, the handle is removed from
\* under the remote key while the guard of peers_writer.lock() lives on to the
\* end of the if let, and peers_writer.lock() is called again to insert it
\* under the node id.  std::sync::Mutex leaves that second call unspecified
\* but for this: it does not return.  The thread waits for itself or panics.
\* With no handle under the remote key the guard is dropped, and the reply is
\* given to the writer unless the remote key contains the node's own id.
ReadHandshake(n, p) ==
    /\ Reading(n, p)
    /\ NextFrame(n, p).type = "handshake"
    /\ NextFrame(n, p).node_id # NONE
    /\ LET id == NextFrame(n, p).node_id
           key == RemoteKey(n, p)
           rest == [chan EXCEPT ![<<p, n>>] = Tail(@)]
           reply == ~contains(key, n) /\ pc[Writer(n, p)] = "running"
       IN IF LockFails(n)
          THEN /\ pc' = [pc EXCEPT ![Reader(n, p)].at = FailedLock(n),
                                   ![Reader(n, p)].peer_id = id]
               /\ chan' = rest
               /\ UNCHANGED <<peers, mutex, inbound>>
          ELSE IF key \in DOMAIN peers[n]
          THEN \E outcome \in {"deadlocked", "panicked"} :
                  /\ peers' = [peers EXCEPT ![n] =
                                  [k \in DOMAIN @ \ {key} |-> @[k]]]
                  /\ mutex' = [mutex EXCEPT ![n] =
                                  IF outcome = "deadlocked" THEN "held"
                                  ELSE "poisoned"]
                  /\ pc' = [pc EXCEPT ![Reader(n, p)].at = outcome,
                                      ![Reader(n, p)].peer_id = id]
                  /\ chan' = rest
                  /\ UNCHANGED inbound
          ELSE /\ pc' = [pc EXCEPT ![Reader(n, p)].peer_id = id,
                                   ![Reader(n, p)].replies =
                                       IF reply THEN @ + 1 ELSE @]
               /\ chan' = IF reply
                          THEN [rest EXCEPT ![<<n, p>>] = Append(@, Handshake(n))]
                          ELSE rest
               /\ inbound' = [inbound EXCEPT ![n] =
                                 Append(@, [peer_id |-> id,
                                            message |-> NextFrame(n, p)])]
               /\ UNCHANGED <<peers, mutex>>
    /\ UNCHANGED <<connFrame, last, now, minted, dht>>

ReadDhtStore(n, p) ==
    /\ Reading(n, p)
    /\ NextFrame(n, p).type = "dht_store"
    /\ dht' = [dht EXCEPT ![n].dht_store =
                  store_dht_value(@, NextFrame(n, p).payload.key,
                                  NextFrame(n, p).payload.value)]
    /\ chan' = [chan EXCEPT ![<<p, n>>] = Tail(@)]
    /\ UNCHANGED <<connFrame, last, now, peers, inbound, minted, mutex, pc>>

\* a lookup of a peer: the route back is noted; a value held here is sent
\* back, else the lookup is passed on to the closest other peers while it has
\* hops left
ReadDhtFind(n, p) ==
    /\ Reading(n, p)
    /\ NextFrame(n, p).type = "dht_find"
    /\ LET frame == NextFrame(n, p)
           key == frame.payload.key
           from == active_peer_id(n, p)
           rest == [chan EXCEPT ![<<p, n>>] = Tail(@)]
           hops_left == unwrap_or(frame.hops_left, dht_max_hops)
           held == key \in DOMAIN dht[n].dht_store
       IN /\ dht' = [dht EXCEPT ![n].dht_routes =
                        IF frame.request_id # NONE
                        THEN (frame.request_id :> from) @@ @ ELSE @]
          /\ IF ~(held /\ frame.request_id # NONE) /\ hops_left <= 0
             THEN chan' = rest /\ UNCHANGED pc
             ELSE IF LockFails(n)
             THEN /\ pc' = [pc EXCEPT ![Reader(n, p)].at = FailedLock(n)]
                  /\ chan' = rest
             ELSE IF held /\ frame.request_id # NONE
             THEN /\ chan' = SendTo(rest, n, peers[n], from,
                                    Frame("dht_value",
                                          [key |-> key,
                                           value |-> dht[n].dht_store[key]],
                                          None, frame.request_id, NONE))
                  /\ UNCHANGED pc
             ELSE /\ \E targets \in select_closest_peers(peers[n], key,
                                                          dht_alpha, from) :
                        chan' = SendToAll(rest, n, peers[n], targets,
                                          [frame EXCEPT !.hops_left =
                                                            Some(hops_left - 1)])
                  /\ UNCHANGED pc
    /\ UNCHANGED <<connFrame, last, now, peers, inbound, minted, mutex>>

\* an answer: it completes the lookup that waits for it here, or goes back
\* along its route, or is handed to the dispatcher
ReadDhtValue(n, p) ==
    /\ Reading(n, p)
    /\ NextFrame(n, p).type = "dht_value"
    /\ LET frame == NextFrame(n, p)
           id == frame.request_id
           rest == [chan EXCEPT ![<<p, n>>] = Tail(@)]
       IN IF id # NONE /\ id \in dht[n].dht_waiters
          THEN /\ dht' = [dht EXCEPT
                             ![n].dht_waiters = @ \ {id},
                             ![n].dht_routes = [r \in DOMAIN @ \ {id} |-> @[r]]]
               /\ pc' = [pc EXCEPT ![FindCall(n)] =
                            IF @.at = "waiting" /\ @.request_id = id
                            THEN [@ EXCEPT !.at = "returned",
                                           !.result = [ok |-> TRUE,
                                                       value |-> Some(frame.payload.value)]]
                            ELSE @]
               /\ chan' = rest
               /\ UNCHANGED inbound
          ELSE IF id # NONE /\ id \in DOMAIN dht[n].dht_routes
          THEN /\ dht' = [dht EXCEPT
                             ![n].dht_routes = [r \in DOMAIN @ \ {id} |-> @[r]]]
               /\ IF LockFails(n)
                  THEN /\ pc' = [pc EXCEPT ![Reader(n, p)].at = FailedLock(n)]
                       /\ chan' = rest
                  ELSE /\ chan' = SendTo(rest, n, peers[n],
                                         dht[n].dht_routes[id], frame)
                       /\ UNCHANGED pc
               /\ UNCHANGED inbound
          ELSE /\ ToInbound(n, p, frame)
               /\ chan' = rest
               /\ UNCHANGED <<dht, pc>>
    /\ UNCHANGED <<connFrame, last, now, peers, minted, mutex>>

\* a handshake that names no node goes the way of any other frame: to the
\* dispatcher
ReadOther(n, p) ==
    /\ Reading(n, p)
    /\ \/ NextFrame(n, p).type \notin {"handshake", "dht_store", "dht_find", "dht_value"}
       \/ NextFrame(n, p).type = "handshake" /\ NextFrame(n, p).node_id = NONE
    /\ ToInbound(n, p, NextFrame(n, p))
    /\ chan' = [chan EXCEPT ![<<p, n>>] = Tail(@)]
    /\ UNCHANGED <<connFrame, last, now, peers, minted, mutex, pc, dht>>

\* MeshNode::dht_store: the value is stored here, then sent to the dht_k
\* closest peers
DhtStore(n) ==
    \E key \in DhtKeys, value \in DhtValues :
        /\ pc[StoreCall(n)].at \in {"idle", "returned"}
        /\ pc[StoreCall(n)].calls < MaxDhtStores
        /\ dht' = [dht EXCEPT ![n].dht_store = store_dht_value(@, key, value)]
        /\ last' = [op |-> "dht_store", from |-> n, operator |-> key,
                    ok |-> ~LockFails(n), val |-> value]
        /\ IF LockFails(n)
           THEN /\ pc' = [pc EXCEPT ![StoreCall(n)] =
                             [at |-> FailedLock(n), calls |-> @.calls + 1]]
                /\ UNCHANGED chan
           ELSE /\ pc' = [pc EXCEPT ![StoreCall(n)] =
                             [at |-> "returned", calls |-> @.calls + 1]]
                /\ \E targets \in select_closest_peers(peers[n], key, dht_k, NONE) :
                      chan' = SendToAll(chan, n, peers[n], targets \ {n},
                                        Frame("dht_store",
                                              [key |-> key, value |-> value],
                                              None, NONE, NONE))
        /\ UNCHANGED <<connFrame, now, peers, inbound, minted, mutex>>

\* MeshNode::dht_find up to its wait: a value held here is returned; else a
\* waiter is registered and the lookup is sent to the dht_alpha closest peers
DhtFind(n) ==
    \E key \in DhtKeys :
        /\ pc[FindCall(n)].at = "idle"
        /\ IF key \in DOMAIN dht[n].dht_store
           THEN /\ pc' = [pc EXCEPT ![FindCall(n)] =
                             [@ EXCEPT !.at = "returned", !.key = key,
                                       !.result = [ok |-> TRUE,
                                                   value |-> Some(dht[n].dht_store[key])]]]
                /\ UNCHANGED <<dht, chan, minted>>
           ELSE /\ minted < Len(RequestIds)
                /\ LET request_id == RequestIds[minted + 1]
                   IN /\ minted' = minted + 1
                      /\ dht' = [dht EXCEPT ![n].dht_waiters = @ \cup {request_id}]
                      /\ IF LockFails(n)
                         THEN /\ pc' = [pc EXCEPT ![FindCall(n)] =
                                           [@ EXCEPT !.at = FailedLock(n),
                                                     !.key = key,
                                                     !.request_id = request_id]]
                              /\ UNCHANGED chan
                         ELSE /\ pc' = [pc EXCEPT ![FindCall(n)] =
                                           [@ EXCEPT !.at = "waiting", !.key = key,
                                                     !.request_id = request_id,
                                                     !.since = now]]
                              /\ \E targets \in select_closest_peers(
                                                    peers[n], key, dht_alpha, NONE) :
                                    chan' = SendToAll(chan, n, peers[n], targets,
                                               Frame("dht_find",
                                                     [key |-> key, origin |-> n],
                                                     Some(dht_max_hops), request_id,
                                                     NONE))
        /\ UNCHANGED <<connFrame, last, now, peers, inbound, mutex>>

\* the timeout of dht_find: no answer came within the wait
FindTimeout(n) ==
    /\ pc[FindCall(n)].at = "waiting"
    /\ now - pc[FindCall(n)].since >= dht_timeout_ms
    /\ pc' = [pc EXCEPT ![FindCall(n)] =
                 [@ EXCEPT !.at = "returned",
                           !.result = [ok |-> FALSE, value |-> None]]]
    /\ UNCHANGED <<connFrame, last, now, peers, chan, inbound, minted, mutex, dht>>

ConnTick ==
    /\ Tick
    /\ UNCHANGED <<store, last, stores, tasks, completed_tasks, worker, mutex,
                   pc, dht, arrived, handled>>

\* nodes that have made no connection yet, for the connections conns, each
\* with the DHT map dht_stores gives it
UnconnectedWith(conns, dht_stores) ==
    /\ now = 0
    /\ peers = [n \in ConnNodes |-> EmptyFn]
    /\ chan = [l \in conns \cup {<<c[2], c[1]>> : c \in conns} |-> <<>>]
    /\ reader = [l \in Links |-> <<>>]
    /\ seen = [n \in Nodes |-> EmptyFn]
    /\ inbound = [n \in ConnNodes |-> <<>>]
    /\ minted = 0
    /\ dispatched = [n \in Nodes |-> [id \in MsgIds |-> 0]]
    /\ relayed = [n \in Nodes |-> [id \in MsgIds |-> 0]]
    /\ stores = [n \in Nodes |-> StartedStore(n, FALSE, NONE)]
    /\ IdleBazaar
    /\ IdleStore
    /\ mutex = [n \in ConnNodes |-> "free"]
    /\ pc = [t \in {Reader(c[1], c[2]) : c \in conns} |->
                 [at |-> "unconnected", peer_id |-> NONE, replies |-> 0]]
            @@ [t \in {Writer(c[1], c[2]) : c \in conns} |-> "running"]
            @@ [t \in {StoreCall(n) : n \in ConnNodes} |->
                   [at |-> "idle", calls |-> 0]]
            @@ [t \in {FindCall(n) : n \in ConnNodes} |->
                   [at |-> "idle", key |-> NONE, request_id |-> NONE, since |-> 0,
                    result |-> [ok |-> FALSE, value |-> None]]]
            @@ [t \in {SendCall(n) : n \in ConnNodes} |-> 0]
            @@ (ClientTask :> 0)
    /\ dht = [n \in ConnNodes |->
                 [dht_store |-> dht_stores[n], dht_waiters |-> {},
                  dht_routes |-> EmptyFn]]
    /\ arrived = EmptyFn
    /\ handled = EmptyFn

Unconnected(conns) == UnconnectedWith(conns, [n \in ConnNodes |-> EmptyFn])

InitConn == Unconnected(Connections)

NextConn ==
    \/ \E c \in Connections : Open(c[1], c[2])
    \/ ClientWrite
    \/ \E c \in Connections : ReadHandshake(c[1], c[2])
    \/ \E c \in Connections : ReadDhtStore(c[1], c[2])
    \/ \E c \in Connections : ReadDhtFind(c[1], c[2])
    \/ \E c \in Connections : ReadDhtValue(c[1], c[2])
    \/ \E c \in Connections : ReadOther(c[1], c[2])
    \/ DhtStore(LocalNode)
    \/ DhtFind(LocalNode)
    \/ FindTimeout(LocalNode)
    \/ ConnTick

SpecConn == InitConn /\ [][NextConn]_vars

\* n has processed the handshake of p on their connection
Handshaken(n, p) == <<n, p>> \in Connections /\ pc[Reader(n, p)].peer_id = p

\* this step is a call of dht_store on n
StoreCalled(n) == pc'[StoreCall(n)].calls = pc[StoreCall(n)].calls + 1

\* this step is n's reader of the connection with p taking a dht_store frame
StoreFrameRead(n, p) ==
    /\ Reading(n, p)
    /\ NextFrame(n, p).type = "dht_store"
    /\ chan'[<<p, n>>] = Tail(chan[<<p, n>>])

\* C16: after dht_store(k, v) on a node the node holds v under k, so that
\* dht_find(k) returns it there without a frame to any peer; the call has sent
\* a dht_store frame to every handshaken, directly connected peer (dht_k is
\* not less than the number of peers), and a peer that takes such a frame
\* holds v under k
C16_StoreThenFind ==
    [][/\ \A n \in ConnNodes :
            StoreCalled(n) =>
               /\ dht'[n].dht_store[last'.operator] = last'.val
               /\ pc'[StoreCall(n)].at = "returned"
               /\ \A p \in ConnNodes :
                     Handshaken(n, p) =>
                        /\ Len(chan'[<<n, p>>]) = Len(chan[<<n, p>>]) + 1
                        /\ chan'[<<n, p>>][Len(chan'[<<n, p>>])].payload
                              = [key |-> last'.operator, value |-> last'.val]
       /\ \A c \in Connections :
            StoreFrameRead(c[1], c[2]) =>
               dht'[c[1]].dht_store[NextFrame(c[1], c[2]).payload.key]
                   = NextFrame(c[1], c[2]).payload.value
      ]_vars

\* C17: a dht_find for a key that no node holds does not come to a stop
\* before its wait: it waits, and when dht_timeout_ms have passed it can
\* return the timeout failure; it has left the peer table as it was
C17_FindTimesOut ==
    \A n \in ConnNodes :
        /\ pc[FindCall(n)].at \in {"idle", "waiting", "returned"}
        /\ (pc[FindCall(n)].at = "waiting"
               /\ now - pc[FindCall(n)].since >= dht_timeout_ms)
           => ENABLED FindTimeout(n)

\* C20: once a node has processed the handshake of node N on a connection,
\* its peer table holds the handle of that connection under N and no longer
\* under the remote key, and the reader of the connection reads on
C20_Rekeyed ==
    \A c \in Connections :
        LET n == c[1]
            id == pc[Reader(c[1], c[2])].peer_id
            key == RemoteKey(c[1], c[2])
        IN id # NONE =>
              /\ id \in DOMAIN peers[n]
              /\ peers[n][id].addr = key
              /\ key # id => key \notin DOMAIN peers[n]
              /\ pc[Reader(c[1], c[2])].at = "reading"

\* --------------------------------------------------- locking specification
\* The tasks of one node that lock the two tokio mutexes: two HTTP requests
\* being served at a time, the inbound dispatcher and the TaskWorker.  A
\* routine is the sequence of lock().await calls and guard drops of its code.
Lock(m) == [op |-> "lock", m |-> m]
Drop(m) == [op |-> "drop", m |-> m]

Routines ==
    [status |->
        <<Lock("store"), Lock("task_bazaar"), Drop("task_bazaar"), Drop("store")>>,
     stats |->
        <<Lock("store"), Lock("task_bazaar"), Drop("task_bazaar"),
          Lock("task_bazaar"), Lock("store"), Drop("store"), Drop("task_bazaar"),
          Drop("store")>>,
     publish_task |->
        <<Lock("task_bazaar"), Lock("store"), Drop("store"), Drop("task_bazaar"),
          Lock("task_bazaar"), Drop("task_bazaar")>>,
     handle_inbound_capsule |-> <<Lock("store"), Drop("store")>>,
     handle_inbound_task |-> <<Lock("task_bazaar"), Drop("task_bazaar")>>,
     check_tasks |-> <<Lock("task_bazaar"), Drop("task_bazaar")>>,
     complete_task |->
        <<Lock("task_bazaar"), Lock("store"), Drop("store"), Drop("task_bazaar")>>]

Threads == {"http_1", "http_2", "dispatcher", "worker"}

ThreadRoutines(t) ==
    CASE t \in {"http_1", "http_2"} -> {"status", "stats", "publish_task"}
      [] t = "dispatcher" -> {"handle_inbound_capsule", "handle_inbound_task"}
      [] t = "worker" -> {"check_tasks", "complete_task"}

Running(t) == pc[t].routine # NONE /\ pc[t].at <= Len(Routines[pc[t].routine])
NextOp(t) == Routines[pc[t].routine][pc[t].at]

\* a task enters one of its routines
Enter(t) ==
    \E routine \in ThreadRoutines(t) :
        /\ pc[t].routine = NONE
        /\ pc' = [pc EXCEPT ![t] = [routine |-> routine, at |-> 1, held |-> <<>>]]
        /\ UNCHANGED mutex

\* lock().await returns when the mutex is free
LockStep(t) ==
    /\ Running(t)
    /\ NextOp(t).op = "lock"
    /\ mutex[NextOp(t).m] = NONE
    /\ mutex' = [mutex EXCEPT ![NextOp(t).m] = t]
    /\ pc' = [pc EXCEPT ![t].at = @ + 1, ![t].held = Append(@, NextOp(t).m)]

\* a guard goes out of scope
DropStep(t) ==
    /\ Running(t)
    /\ NextOp(t).op = "drop"
    /\ mutex' = [mutex EXCEPT ![NextOp(t).m] = NONE]
    /\ pc' = [pc EXCEPT ![t].at = @ + 1,
                        ![t].held = SelectSeq(@, LAMBDA m : m # NextOp(t).m)]

Return(t) ==
    /\ pc[t].routine # NONE
    /\ ~Running(t)
    /\ pc' = [pc EXCEPT ![t] = [routine |-> NONE, at |-> 1, held |-> <<>>]]
    /\ UNCHANGED mutex

\* the variables this specification leaves alone
lockFrame == <<storeVars, meshVars, bazaarVars, dht, arrived, handled>>

InitLocks ==
    /\ InitMesh({})
    /\ stores = [n \in Nodes |-> StartedStore(n, FALSE, NONE)]
    /\ IdleBazaar
    /\ IdleStore
    /\ mutex = [m \in {"store", "task_bazaar"} |-> NONE]
    /\ pc = [t \in Threads |-> [routine |-> NONE, at |-> 1, held |-> <<>>]]
    /\ dht = EmptyFn
    /\ arrived = EmptyFn
    /\ handled = EmptyFn

NextLocks ==
    \/ \E t \in Threads : Enter(t) /\ UNCHANGED lockFrame
    \/ \E t \in Threads : LockStep(t) /\ UNCHANGED lockFrame
    \/ \E t \in Threads : DropStep(t) /\ UNCHANGED lockFrame
    \/ \E t \in Threads : Return(t) /\ UNCHANGED lockFrame

SpecLocks == InitLocks /\ [][NextLocks]_vars

\* task t waits in lock().await for mutex m
Waits(t, m) ==
    /\ Running(t)
    /\ NextOp(t) = Lock(m)
    /\ mutex[m] # NONE

\* the tasks of D wait for mutexes that tasks of D hold: none of them will
\* ever go on
Stuck(D) ==
    /\ D # {}
    /\ \A t \in D : \E m \in DOMAIN mutex : Waits(t, m) /\ mutex[m] \in D

\* C18: a task that holds both mutexes took TaskBazaar first, no task asks
\* for a mutex it holds, and no tasks wait on the two mutexes for ever
C18_LockOrder ==
    /\ \A t \in Threads :
          Len(pc[t].held) = 2 => pc[t].held = <<"task_bazaar", "store">>
    /\ \A t \in Threads, m \in DOMAIN mutex : ~(Waits(t, m) /\ mutex[m] = t)
    /\ \A D \in SUBSET Threads : ~Stuck(D)

\* ----------------------------------------------------- order specification
\* node_a with connections from node_b and node_c: the frames that arrive on
\* each connection and the messages the dispatcher handles are written down
\* in the order in which they happen.
OrderFrames == {frame \in EnvFrames : frame.type # "task_completed"}

\* a line of the connection from p reaches the read loop of n
ArriveOrdered(n, p) ==
    \E frame \in OrderFrames :
        /\ p \in DOMAIN peers[n]
        /\ frame.message_id \notin DOMAIN seen[n]
        /\ \A i \in 1 .. Len(chan[<<p, n>>]) :
              chan[<<p, n>>][i].message_id # frame.message_id
        /\ chan' = [chan EXCEPT ![<<p, n>>] = Append(@, frame)]
        /\ arrived' = [arrived EXCEPT ![<<p, n>>] = Append(@, frame)]
        /\ UNCHANGED <<now, peers, reader, seen, inbound, minted, dispatched,
                       relayed, handled>>

DispatchOrdered(n) ==
    /\ Dispatch(n)
    /\ handled' = [handled EXCEPT ![n] = Append(@, Head(inbound[n]))]
    /\ UNCHANGED arrived

orderFrame == <<storeVars, bazaarVars, mutex, pc, dht, arrived, handled>>

InitOrder ==
    /\ InitMesh(Triangle)
    /\ stores = [n \in Nodes |-> StartedStore(n, FALSE, NONE)]
    /\ IdleBazaar
    /\ IdleStore
    /\ mutex = EmptyFn
    /\ pc = EmptyFn
    /\ dht = EmptyFn
    /\ arrived = [l \in Links |-> <<>>]
    /\ handled = [n \in Nodes |-> <<>>]

NextOrder ==
    \/ \E p \in {"node_b", "node_c"} :
          ArriveOrdered(LocalNode, p) /\ UNCHANGED <<storeVars, bazaarVars, mutex, pc, dht>>
    \/ \E p \in {"node_b", "node_c"} :
          ReadFrame(LocalNode, p, ProgramLimits) /\ UNCHANGED orderFrame
    \/ \E p \in {"node_b", "node_c"} :
          Deliver(LocalNode, p) /\ UNCHANGED orderFrame
    \/ DispatchOrdered(LocalNode) /\ UNCHANGED <<storeVars, mutex, pc, dht>>

SpecOrder == InitOrder /\ [][NextOrder]_vars

\* the messages of the sequence of hand-overs that came from peer p
FromPeer(handovers, p) ==
    LET from == SelectSeq(handovers, LAMBDA h : h.peer_id = p)
    IN [i \in 1 .. Len(from) |-> from[i].message]

\* sequence s is what is left of sequence t when some elements are taken away
RECURSIVE IsSubsequence(_, _)
IsSubsequence(s, t) ==
    IF s = <<>> THEN TRUE
    ELSE IF t = <<>> THEN FALSE
    ELSE IF Head(s) = Head(t) THEN IsSubsequence(Tail(s), Tail(t))
    ELSE IsSubsequence(s, Tail(t))

\* C19: the messages of one connection are handed to the dispatcher, and
\* handled by it, in the order in which they arrived on that connection
C19_ConnectionOrder ==
    \A p \in {"node_b", "node_c"} :
        IsSubsequence(FromPeer(handled[LocalNode] \o inbound[LocalNode], p),
                      arrived[<<p, LocalNode>>])

\* two messages of one connection have been handled while a message of the
\* other connection was handled between them
C19_Witness ==
    \E i, j, k \in 1 .. Len(handled[LocalNode]) :
        /\ i < j /\ j < k
        /\ handled[LocalNode][i].peer_id = "node_b"
        /\ handled[LocalNode][j].peer_id = "node_c"
        /\ handled[LocalNode][k].peer_id = "node_b"

\* --------------------------------------------- connection life specification
\* The connections of the connection specification from their opening to
\* their end: the writer task of a connection may break on a write error,
\* the remote end may close, a read may fail, and frames are sent to the
\* peers of the table.
MaxLifeFrames == 2      \* frames the client writes
MaxLifeSends == 1       \* send_to_peer calls of one node

\* the frames a client may write: a handshake that names a node, one that
\* names the address of the first client
LifeFrames == {Handshake("node_c"), Handshake(Client)}

lifeFrame == <<connFrame, last, now, minted, dht>>

ClientSends ==
    \E frame \in LifeFrames, client \in {Client, Client2} :
        /\ pc[Reader("node_a", client)].at \notin {"unconnected", "ended"}
        /\ pc[ClientTask] < MaxLifeFrames
        /\ pc' = [pc EXCEPT ![ClientTask] = @ + 1]
        /\ chan' = [chan EXCEPT ![<<client, "node_a">>] = Append(@, frame)]
        /\ UNCHANGED <<lifeFrame, peers, inbound, mutex>>

\* handle_connection when the write of the handshake fails: the handle has
\* been put into the table, the function returns the error
OpenWriteFails(n, p) ==
    /\ pc[Reader(n, p)].at = "unconnected"
    /\ IF LockFails(n)
       THEN /\ pc' = [pc EXCEPT ![Reader(n, p)].at = FailedLock(n)]
            /\ UNCHANGED peers
       ELSE /\ peers' = [peers EXCEPT ![n] =
                            (RemoteKey(n, p) :> PeerHandle(RemoteKey(n, p))) @@ @]
            /\ pc' = [pc EXCEPT ![Reader(n, p)].at = "ended",
                                ![Writer(n, p)] = "ended"]
    /\ UNCHANGED <<lifeFrame, chan, inbound, mutex>>

\* the writer task breaks out of its loop on a write error and drops rx
WriterEnds(n, p) ==
    /\ pc[Reader(n, p)].at # "unconnected"
    /\ pc[Writer(n, p)] = "running"
    /\ pc' = [pc EXCEPT ![Writer(n, p)] = "ended"]
    /\ UNCHANGED <<lifeFrame, peers, chan, inbound, mutex>>

\* read_line returns 0 bytes: the loop is left, and the entry under peer_id
\* is removed if a handshake has set peer_id
ReadEof(n, p) ==
    /\ pc[Reader(n, p)].at = "reading"
    /\ chan[<<p, n>>] = <<>>
    /\ LET id == pc[Reader(n, p)].peer_id
       IN IF id = NONE
          THEN /\ pc' = [pc EXCEPT ![Reader(n, p)].at = "ended"]
               /\ UNCHANGED peers
          ELSE IF LockFails(n)
          THEN /\ pc' = [pc EXCEPT ![Reader(n, p)].at = FailedLock(n)]
               /\ UNCHANGED peers
          ELSE /\ pc' = [pc EXCEPT ![Reader(n, p)].at = "ended"]
               /\ peers' = [peers EXCEPT ![n] = [k \in DOMAIN @ \ {id} |-> @[k]]]
    /\ UNCHANGED <<lifeFrame, chan, inbound, mutex>>

\* read_line returns an error: handle_connection returns it
ReadError(n, p) ==
    /\ pc[Reader(n, p)].at = "reading"
    /\ pc' = [pc EXCEPT ![Reader(n, p)].at = "ended"]
    /\ UNCHANGED <<lifeFrame, peers, chan, inbound, mutex>>

\* send_to_peer_static with the peers mutex free: the frame is given to the
\* writer of the handle; if the writer has dropped rx the send fails and the
\* entry is removed
SendToPeer(n) ==
    \E peer_id \in DOMAIN peers[n] :
        /\ ~LockFails(n)
        /\ LET p == Remote(n, peers[n][peer_id].addr)
           IN IF pc[Writer(n, p)] = "running"
              THEN /\ chan' = [chan EXCEPT ![<<n, p>>] =
                                  Append(@, Frame("query", EmptyFn, None, NONE, NONE))]
                   /\ UNCHANGED peers
              ELSE /\ peers' = [peers EXCEPT ![n] =
                                   [k \in DOMAIN @ \ {peer_id} |-> @[k]]]
                   /\ UNCHANGED chan
        /\ pc[SendCall(n)] < MaxLifeSends
        /\ pc' = [pc EXCEPT ![SendCall(n)] = @ + 1]
        /\ UNCHANGED <<lifeFrame, inbound, mutex>>

InitLife == Unconnected(LifeConnections)

NextLife ==
    \/ \E c \in LifeConnections : Open(c[1], c[2])
    \/ \E c \in LifeConnections : OpenWriteFails(c[1], c[2])
    \/ ClientSends
    \/ \E c \in LifeConnections : ReadHandshake(c[1], c[2])
    \/ \E c \in LifeConnections : WriterEnds(c[1], c[2])
    \/ \E c \in LifeConnections : ReadEof(c[1], c[2])
    \/ \E c \in LifeConnections : ReadError(c[1], c[2])
    \/ SendToPeer(LocalNode)

SpecLife == InitLife /\ [][NextLife]_vars

\* n dialed its connection with p
Dialed(n, p) == n = "node_a" /\ p = "node_b"

\* C21: on every connection a side has sent at most one reply handshake
\* besides its initial one, and none unless it dialed the connection, so that
\* the handshakes of a connection come to an end
C21_HandshakeEnds ==
    \A c \in LifeConnections :
        /\ pc[Reader(c[1], c[2])].replies <= 1
        /\ pc[Reader(c[1], c[2])].replies > 0 => Dialed(c[1], c[2])

\* the peer table of n holds the handle of n's connection with p
HasHandle(n, p) ==
    \E k \in DOMAIN peers[n] : peers[n][k].addr = RemoteKey(n, p)

\* C22: the peer table holds the handle of a connection while its read loop
\* runs and no longer once handle_connection has returned, and the return of
\* handle_connection for one connection leaves the handle of every other
\* connection that is being read where it is
C22_HandleWhileAlive ==
    [][\A c \in LifeConnections :
          /\ pc'[Reader(c[1], c[2])].at = "ended" => ~HasHandle(c[1], c[2])'
          /\ pc'[Reader(c[1], c[2])].at = "reading" => HasHandle(c[1], c[2])'
          /\ \A d \in LifeConnections \ {c} :
                (/\ pc[Reader(c[1], c[2])].at = "reading"
                 /\ pc'[Reader(c[1], c[2])].at = "ended"
                 /\ pc[Reader(d[1], d[2])].at = "reading"
                 /\ HasHandle(d[1], d[2]))
                => HasHandle(d[1], d[2])'
      ]_vars

\* this step is the reader of n's connection with p finishing the loop body
\* for the frame it holds
Delivered(n, p) == reader[<<p, n>>] # <<>> /\ reader'[<<p, n>>] = <<>>

\* the frames this step has added to the connection from n to q
Added(n, q) ==
    SubSeq(chan'[<<n, q>>], Len(chan[<<n, q>>]) + 1, Len(chan'[<<n, q>>]))

\* C23: a relayed copy carries the message_id, type and payload it came with
\* and a hops_left one lower than received (the default where none was
\* received); it is not sent to the peer it came from, and no copy is sent
\* when the lowered hops_left is below 0
C23_RelayedCopy ==
    [][\A n \in Nodes : \A p \in Nodes \ {n} :
          Delivered(n, p) =>
             LET parsed == reader[<<p, n>>][1]
                 next_hops == unwrap_or(parsed.hops_left, default_hops) - 1
             IN \A q \in Nodes \ {n} :
                   /\ Len(chan'[<<n, q>>]) >= Len(chan[<<n, q>>])
                   /\ \A i \in 1 .. Len(Added(n, q)) :
                         Added(n, q)[i] = [parsed EXCEPT !.hops_left = Some(next_hops)]
                   /\ (q = p \/ next_hops < 0) => Added(n, q) = <<>>
      ]_vars

\* a node has relayed a message it received to a peer, and a node has
\* received a message whose hops_left is used up
C23_Witness ==
    /\ \E n \in Nodes, id \in MsgIds : relayed[n][id] > 0
    /\ \E l \in Links :
          /\ reader[l] # <<>>
          /\ reader[l][1].hops_left = Some(0)

\* ---------------------------------------------------- fanout specification
\* node_a with up to MaxFanPeers connected peers, none of them with a measured
\* rtt, sends a message of each type as its origin (broadcast) and as a
\* relaying node (the relay of handle_connection).
MaxFanPeers == 9

FanPeerIds == <<"peer_1", "peer_2", "peer_3", "peer_4", "peer_5", "peer_6",
                "peer_7", "peer_8", "peer_9", "peer_10">>
FanTypes == {"task", "task_bid", "task_assigned", "task_completed", "capsule"}

fanoutFrame == <<store, meshVars, bazaarVars, connVars>>

\* MeshNode::broadcast(message, None): the peers the message is sent to
BroadcastTo(n) ==
    \E type \in FanTypes :
        \E targets \in select_peers_static(
                           peers[n], Fanout(WireMessage(type, EmptyFn, "m1", Some(1))),
                           NONE) :
            last' = [op |-> "broadcast", from |-> type, operator |-> NONE,
                     ok |-> TRUE, val |-> targets]

\* the relay of a message received from p with hops_left 1: the peers the
\* copy is sent to
RelayTo(n) ==
    \E type \in FanTypes, p \in DOMAIN peers[n] :
        LET relayedMsg == WireMessage(type, EmptyFn, "m1", Some(0))
        IN \E targets \in select_peers_static(peers[n], RelayFanout(relayedMsg), p) :
              last' = [op |-> "relay", from |-> type, operator |-> p,
                       ok |-> TRUE, val |-> targets]

InitFanout ==
    /\ now = 0
    /\ \E k \in 0 .. MaxFanPeers :
          peers = [n \in {LocalNode} |->
                      [p \in {FanPeerIds[i] : i \in 1 .. k} |-> [rtt |-> None]]]
    /\ chan = EmptyFn
    /\ reader = EmptyFn
    /\ seen = EmptyFn
    /\ inbound = EmptyFn
    /\ minted = 0
    /\ dispatched = EmptyFn
    /\ relayed = EmptyFn
    /\ stores = EmptyFn
    /\ IdleBazaar
    /\ IdleConn
    /\ IdleStore

NextFanout ==
    \/ BroadcastTo(LocalNode) /\ UNCHANGED fanoutFrame
    \/ RelayTo(LocalNode) /\ UNCHANGED fanoutFrame

SpecFanout == InitFanout /\ [][NextFanout]_vars

\* C24: at the origin and at a relaying node a message of type task,
\* task_bid, task_assigned or task_completed goes to min(8, eligible peers)
\* peers and a message of another relayed type to min(6, eligible peers)
C24_Fanout ==
    last.op \in {"broadcast", "relay"} =>
        LET eligible == Cardinality(DOMAIN peers[LocalNode] \ {last.operator})
            fanout == IF last.from \in {"task", "task_bid", "task_assigned",
                                        "task_completed"}
                      THEN 8 ELSE 6
        IN Cardinality(last.val) = IF fanout < eligible THEN fanout ELSE eligible

\* ------------------------------------------------ seen table specification
\* The seen_messages table of node_a under insertions by broadcast
\* (mark_message_seen) and by the read loop (should_process_message), with
\* the ttl scaled to the ticks of the model and the cap scaled to MaxSeen.
MaxSeen == 2

SeenLimits == [ttl_ms |-> SeenTtl * TickMs, max_seen |-> MaxSeen]
SeenIds == {"m1", "m2", "m3", "m4"}

seenFrame == <<store, peers, chan, reader, inbound, minted, dispatched, relayed,
               bazaarVars, connVars>>

MarkSeen(n) ==
    \E id \in SeenIds :
        \E table \in mark_message_seen(seen[n], id, now, SeenLimits) :
            /\ seen' = [seen EXCEPT ![n] = table]
            /\ last' = [op |-> "mark_message_seen", from |-> id,
                        operator |-> NONE, ok |-> TRUE, val |-> NONE]
            /\ UNCHANGED now

ProcessSeen(n) ==
    \E id \in SeenIds :
        \E r \in should_process_message(seen[n], WireMessage("capsule", EmptyFn, id, Some(1)),
                                        now, SeenLimits) :
            /\ seen' = [seen EXCEPT ![n] = r[2]]
            /\ last' = [op |-> "should_process_message", from |-> id,
                        operator |-> NONE, ok |-> r[1], val |-> NONE]
            /\ UNCHANGED now

SeenTick ==
    /\ now < MaxTime * TickMs
    /\ now' = now + TickMs
    /\ UNCHANGED <<seen, last>>

InitSeen ==
    /\ InitMesh({})
    /\ stores = [n \in Nodes |-> StartedStore(n, FALSE, NONE)]
    /\ IdleBazaar
    /\ IdleConn
    /\ IdleStore

NextSeen ==
    \/ MarkSeen(LocalNode) /\ UNCHANGED seenFrame
    \/ ProcessSeen(LocalNode) /\ UNCHANGED seenFrame
    \/ SeenTick /\ UNCHANGED seenFrame

SpecSeen == InitSeen /\ [][NextSeen]_vars

\* C25: after an insertion into seen_messages the table holds no more entries
\* than its cap and none older than its ttl; it holds the id just inserted;
\* and no id that had not expired is gone while an id inserted before it is
\* still there
C25_SeenBounded ==
    [][(now' = now /\ last'.op \in {"mark_message_seen", "should_process_message"}) =>
          LET old == seen[LocalNode]
              new == seen'[LocalNode]
          IN /\ Cardinality(DOMAIN new) <= SeenLimits.max_seen
             /\ \A id \in DOMAIN new : now - new[id] <= SeenLimits.ttl_ms
             /\ last'.from \in DOMAIN new
             /\ \A evicted \in DOMAIN old \ DOMAIN new :
                   now - old[evicted] <= SeenLimits.ttl_ms =>
                      \A kept \in DOMAIN old \cap DOMAIN new :
                         ~(old[kept] < old[evicted])
      ]_vars

\* -------------------------------------------------- task table specification
\* The TaskBazaar of node_a, which has published task_1, under any of the
\* calls the dispatcher, the worker and the web server make: tasks received
\* from peers, bids, assignments and solutions.
TaskNames == {"task_1", "task_2", "task_9"}
Bidders == {"node_b", "node_c"}

\* the tasks a peer may send: task_1 again or task_2, of either type, with a
\* status and bids of the peer's
ReceivedTasks ==
    {[NewTask("solve", Bounty, "node_b") EXCEPT
         !.task_id = id, !.task_type = type, !.status = status, !.bids = bids,
         !.submissions = bids] :
       id \in {"task_1", "task_2"}, type \in {NONE, "code"},
       status \in {"completed"},
       bids \in {<<TaskBid("node_b", 1, 0), TaskBid("node_b", 1, 0)>>}}

\* a solution with a description only, with a short code, with a long code,
\* with neither
Solutions ==
    {[description |-> "text"], [code_len |-> 5], [code_len |-> 12], EmptyFn}

tasksFrame == <<connVars, store, meshVars, worker>>

HandleNewTask ==
    \E task \in ReceivedTasks :
        /\ tasks' = [tasks EXCEPT ![LocalNode] = handle_new_task(@, task)]
        /\ last' = [op |-> "handle_new_task", from |-> task.task_id,
                    operator |-> NONE,
                    ok |-> task.task_id \notin DOMAIN tasks[LocalNode],
                    val |-> task]
        /\ UNCHANGED <<stores, completed_tasks>>

AddAnyBid ==
    \E task_id \in TaskNames, n \in Bidders :
        LET r == add_bid(tasks[LocalNode], task_id, TaskBid(n, 1, now), now)
        IN /\ tasks' = [tasks EXCEPT ![LocalNode] = r[1]]
           /\ last' = [op |-> "add_bid", from |-> task_id, operator |-> n,
                       ok |-> r[2] # None, val |-> r[2]]
           /\ UNCHANGED <<stores, completed_tasks>>

\* handle_inbound for a task_assigned message
TaskAssigned ==
    \E task_id \in TaskNames, n \in {"node_b"} :
        /\ tasks' = [tasks EXCEPT ![LocalNode] =
                        update_task(@, task_id,
                                    [status |-> "assigned", assigned_to |-> n])]
        /\ last' = [op |-> "task_assigned", from |-> task_id, operator |-> n,
                    ok |-> TRUE, val |-> NONE]
        /\ UNCHANGED <<stores, completed_tasks>>

SubmitSolution ==
    \E task_id \in TaskNames, solution \in Solutions, solver \in {"node_b"} :
        LET r == submit_solution(tasks[LocalNode], completed_tasks[LocalNode],
                                 stores[LocalNode], task_id, solution, solver)
        IN /\ tasks' = [tasks EXCEPT ![LocalNode] = r.tasks]
           /\ completed_tasks' = [completed_tasks EXCEPT ![LocalNode] = r.completed]
           /\ stores' = [stores EXCEPT ![LocalNode] = r.s]
           /\ last' = [op |-> "submit_solution", from |-> task_id,
                       operator |-> solver, ok |-> r.ok,
                       val |-> [success |-> r.val, solution |-> solution]]

InitTasks == InitWinner

NextTasks ==
    \/ HandleNewTask /\ UNCHANGED tasksFrame
    \/ AddAnyBid /\ UNCHANGED tasksFrame
    \/ TaskAssigned /\ UNCHANGED tasksFrame
    \/ SubmitSolution /\ UNCHANGED tasksFrame

SpecTasks == InitTasks /\ [][NextTasks]_vars

\* no two bids of the list are of the same node
NoDuplicateBids(bids) ==
    \A i, j \in 1 .. Len(bids) : bids[i].node_id = bids[j].node_id => i = j

\* C26: no task's bid list holds two bids of one node; add_bid with a node_id
\* that is in the list returns the task and leaves it unchanged, add_bid for
\* an unknown task changes nothing, and the first bid appended to an open
\* task moves it to voting and sets voting_started_at
C26_NoDuplicateBids ==
    /\ \A id \in DOMAIN tasks[LocalNode] : NoDuplicateBids(tasks[LocalNode][id].bids)
    /\ [][/\ \A id \in DOMAIN tasks'[LocalNode] :
                NoDuplicateBids(tasks'[LocalNode][id].bids)
          /\ (last'.op = "add_bid" /\ last' # last) =>
                LET ts == tasks[LocalNode]
                    id == last'.from
                IN IF id \notin DOMAIN ts
                   THEN /\ tasks' = tasks
                        /\ last'.val = None
                   ELSE IF \E i \in 1 .. Len(ts[id].bids) :
                              ts[id].bids[i].node_id = last'.operator
                   THEN /\ tasks' = tasks
                        /\ last'.val = Some(ts[id])
                   ELSE /\ tasks'[LocalNode][id].bids
                              = Append(ts[id].bids, TaskBid(last'.operator, 1, now))
                        /\ ts[id].status = "open" =>
                              /\ tasks'[LocalNode][id].status = "voting"
                              /\ tasks'[LocalNode][id].voting_started_at = Some(now)
                        /\ last'.val = Some(tasks'[LocalNode][id])
         ]_vars

\* add_bid was called for a node whose bid the task holds, on a task that
\* holds the bids of two nodes
C26_Witness ==
    /\ last.op = "add_bid"
    /\ last.ok
    /\ Len(last.val[1].bids) = 2
    /\ last.val[1].bids[1].node_id = last.operator

\* C27: handle_new_task for a task_id the node knows leaves the task table as
\* it is; for an unknown task_id it adds the task received with status open
\* and with no bids and no submissions, whatever the task received carried
C27_HandleNewTask ==
    [][(last'.op = "handle_new_task" /\ (last.op # "handle_new_task" \/ last' # last)) =>
          LET ts == tasks[LocalNode]
              id == last'.from
          IN IF id \in DOMAIN ts
             THEN tasks' = tasks
             ELSE /\ DOMAIN tasks'[LocalNode] = DOMAIN ts \cup {id}
                  /\ \A other \in DOMAIN ts : tasks'[LocalNode][other] = ts[other]
                  /\ tasks'[LocalNode][id].status = "open"
                  /\ tasks'[LocalNode][id].bids = <<>>
                  /\ tasks'[LocalNode][id].submissions = <<>>
                  /\ tasks'[LocalNode][id].task_type = last'.val.task_type
                  /\ tasks'[LocalNode][id].publisher = last'.val.publisher
      ]_vars

\* a task that is known, in voting with a bid, was received again as
\* completed with other bids
C27_Witness ==
    /\ last.op = "handle_new_task"
    /\ ~last.ok
    /\ last.val.status = "completed"
    /\ tasks[LocalNode][last.from].status = "voting"
    /\ Len(tasks[LocalNode][last.from].bids) = 1
    /\ tasks[LocalNode][last.from].bids # last.val.bids

\* C28: submit_solution returns an error when the task is unknown or its
\* status is neither open nor assigned; for a task of type code it succeeds
\* only with a solution that carries a code string longer than 10; and when
\* it returns an error or a soft failure the task's status and winner and
\* the escrow rows are as they were
C28_SubmitSolution ==
    [][(last'.op = "submit_solution" /\ (last.op # "submit_solution" \/ last' # last)) =>
          LET ts == tasks[LocalNode]
              id == last'.from
              solution == last'.val.solution
              success == last'.ok /\ last'.val.success
          IN /\ (id \notin DOMAIN ts \/ ts[id].status \notin {"open", "assigned"})
                    => ~last'.ok
             /\ (success /\ ts[id].task_type = "code")
                    => ("code_len" \in DOMAIN solution /\ solution.code_len > 10)
             /\ ~success =>
                    /\ stores'[LocalNode].escrows = stores[LocalNode].escrows
                    /\ id \in DOMAIN ts =>
                          /\ tasks'[LocalNode][id].status = ts[id].status
                          /\ tasks'[LocalNode][id].winner = ts[id].winner
      ]_vars

\* ------------------------------------------------- voting specification
\* the bazaar specification with a clock that reaches two periods of the
\* worker, so that a node can bid one period after another node did and then
\* close the vote it started
MaxVotingTicks == 2

VotingTick ==
    /\ now < MaxVotingTicks * TickMs
    /\ now' = now + TickMs
    /\ UNCHANGED <<peers, chan, reader, seen, inbound, minted, dispatched, relayed>>

InitVoting == InitBazaar

NextVoting ==
    \/ \E n \in Nodes : PublishTask(n, ProgramLimits) /\ UNCHANGED <<storeVars, connVars>>
    \/ \E l \in Links : ReadFrame(l[2], l[1], ProgramLimits)
                        /\ UNCHANGED <<storeVars, bazaarVars, connVars>>
    \/ \E l \in Links : Deliver(l[2], l[1]) /\ UNCHANGED <<storeVars, bazaarVars, connVars>>
    \/ \E n \in Nodes : Dispatch(n) /\ UNCHANGED <<storeVars, connVars>>
    \/ \E n \in Nodes : WorkerCheckTasks(n) /\ UNCHANGED <<storeVars, connVars>>
    \/ \E n \in Nodes : WorkerSubmitBid(n, ProgramLimits) /\ UNCHANGED <<storeVars, connVars>>
    \/ \E n \in Nodes : WorkerProcessVoting(n) /\ UNCHANGED <<storeVars, connVars>>
    \/ \E n \in Nodes : WorkerAssign(n, ProgramLimits) /\ UNCHANGED <<storeVars, connVars>>
    \/ \E n \in Nodes : WorkerCompleteTask(n, ProgramLimits) /\ UNCHANGED <<storeVars, connVars>>
    \/ VotingTick /\ UNCHANGED <<storeVars, bazaarVars, connVars>>

SpecVoting == InitVoting /\ [][NextVoting]_vars

\* the worker of n is at the update_task of process_voting and a winner was
\* determined: this step patches the task and originates task_assigned
Assigns(n) ==
    /\ worker[n].pc = "assign"
    /\ worker'[n].pc # "assign"
    /\ minted' # minted

VotingStarted(task) ==
    unwrap_or(task.voting_started_at,
              IF task.bids = <<>> THEN 0 ELSE task.bids[1].timestamp)

\* C29: the worker of a node moves a task to assigned only if the node is the
\* publisher of the task, the task is in voting with at least one bid, and
\* the vote started at least 5,000 ms before; a task that is assigned or
\* completed does not return to open or voting, so the worker originates at
\* most one task_assigned for it; and the node assigned is determine_winner
\* of the bids the node holds when it assigns
C29_WorkerAssigns ==
    [][\A n \in Nodes :
          /\ Assigns(n) =>
                LET id == worker[n].task[1].task_id
                IN /\ id \in DOMAIN tasks[n]
                   /\ tasks[n][id].publisher = n
                   /\ tasks[n][id].status = "voting"
                   /\ tasks[n][id].bids # <<>>
                   /\ now - VotingStarted(tasks[n][id]) >= 5000
                   /\ tasks'[n][id].status = "assigned"
                   /\ tasks'[n][id].assigned_to = determine_winner(tasks[n][id])[1].node_id
          /\ \A id \in DOMAIN tasks[n] :
                tasks[n][id].status \in {"assigned", "completed"}
                    => tasks'[n][id].status \in {"assigned", "completed"}
      ]_vars

\* -------------------------------------------------- merge specification
\* store_dht_value applied, again and again, to the map of one node with
\* every value of MergeValues
MaxMergeLen == 2
MergeItems == {"a1", "a2", "a3"}

RECURSIVE SeqsUpTo(_, _)
SeqsUpTo(S, len) ==
    IF len = 0 THEN {<<>>}
    ELSE LET shorter == SeqsUpTo(S, len - 1)
         IN shorter \cup {Append(s, x) : s \in shorter, x \in S}

MergeValues ==
    {Scalar("v1"), Scalar("a1")} \cup {Array(s) : s \in SeqsUpTo(MergeItems, MaxMergeLen)}

mergeFrame == <<store, meshVars, bazaarVars, mutex, pc, arrived, handled>>

StoreDhtValue ==
    \E key \in DhtKeys, value \in MergeValues :
        /\ dht' = [dht EXCEPT ![LocalNode].dht_store = store_dht_value(@, key, value)]
        /\ last' = [op |-> "store_dht_value", from |-> key, operator |-> NONE,
                    ok |-> TRUE, val |-> value]

InitMerge == InitConn

NextMerge == StoreDhtValue /\ UNCHANGED mergeFrame

SpecMerge == InitMerge /\ [][NextMerge]_vars

Elements(seq) == {seq[i] : i \in 1 .. Len(seq)}

FirstIndex(seq, x) ==
    CHOOSE i \in 1 .. Len(seq) : seq[i] = x /\ \A j \in 1 .. i - 1 : seq[j] # x

\* C30: a write of an array onto a key that holds an array keeps the elements
\* held in their order and appends, once each and in the order of their first
\* appearance, the incoming elements that the key did not hold; every other
\* write puts the incoming value under the key; no write touches another key;
\* and the write of the value that was just written changes nothing
C30_DhtMerge ==
    [][last'.op = "store_dht_value" =>
          LET map == dht[LocalNode].dht_store
              map1 == dht'[LocalNode].dht_store
              key == last'.from
              value == last'.val
          IN /\ DOMAIN map1 = DOMAIN map \cup {key}
             /\ \A other \in DOMAIN map \ {key} : map1[other] = map[other]
             /\ IF value.array /\ key \in DOMAIN map /\ map[key].array
                THEN LET held == map[key].items
                         result == map1[key].items
                         appended == SubSeq(result, Len(held) + 1, Len(result))
                     IN /\ map1[key].array
                        /\ Len(result) >= Len(held)
                        /\ SubSeq(result, 1, Len(held)) = held
                        /\ Elements(appended) = Elements(value.items) \ Elements(held)
                        /\ \A i, j \in 1 .. Len(appended) :
                              i < j => /\ appended[i] # appended[j]
                                       /\ FirstIndex(value.items, appended[i])
                                             < FirstIndex(value.items, appended[j])
                ELSE map1[key] = value
             /\ (last.op = "store_dht_value" /\ last = last') => map1 = map
      ]_vars

\* the key held [a1]; [a2, a2] was written and a2 was appended once
C30_Witness ==
    /\ last.op = "store_dht_value"
    /\ last.val = Array(<<"a2", "a2">>)
    /\ \E key \in DOMAIN dht[LocalNode].dht_store :
          dht[LocalNode].dht_store[key] = Array(<<"a1", "a2">>)

\* C31: once a dht_find call has returned, with a value or with the timeout,
\* the waiter table of the node does not hold the request_id of that call
C31_NoOrphanedWaiter ==
    \A n \in ConnNodes :
        pc[FindCall(n)].at = "returned"
            => pc[FindCall(n)].request_id \notin dht[n].dht_waiters

\* the frames n wrote to q in this step
Written(n, q) ==
    IF <<n, q>> \in DOMAIN chan
    THEN SubSeq(chan'[<<n, q>>], Len(chan[<<n, q>>]) + 1, Len(chan'[<<n, q>>]))
    ELSE <<>>

\* the reader of n takes a dht_find off its connection with p
TakesDhtFind(n, p) ==
    /\ Reading(n, p)
    /\ NextFrame(n, p).type = "dht_find"
    /\ chan'[<<p, n>>] = Tail(chan[<<p, n>>])

\* C32: a node that takes a dht_find and holds the key writes one dht_value
\* with the request_id of the lookup to the sender and nothing else; a node
\* that does not hold the key writes the lookup, with hops_left one less, to
\* at most dht_alpha peers and not to the sender, and to none unless
\* hops_left > 0
C32_DhtFindHandled ==
    [][\A c \in Connections :
          TakesDhtFind(c[1], c[2]) =>
              LET n == c[1]
                  p == c[2]
                  frame == NextFrame(n, p)
                  others == {d[2] : d \in {e \in Connections : e[1] = n}} \ {p}
                  hops_left == unwrap_or(frame.hops_left, dht_max_hops)
              IN IF frame.payload.key \in DOMAIN dht[n].dht_store
                 THEN /\ Len(Written(n, p)) = 1
                      /\ Written(n, p)[1].type = "dht_value"
                      /\ Written(n, p)[1].request_id = frame.request_id
                      /\ Written(n, p)[1].payload.value
                             = dht[n].dht_store[frame.payload.key]
                      /\ \A q \in others : Written(n, q) = <<>>
                 ELSE /\ Written(n, p) = <<>>
                      /\ Cardinality({q \in others : Written(n, q) # <<>>}) <= dht_alpha
                      /\ \A q \in others :
                            \/ Written(n, q) = <<>>
                            \/ /\ hops_left > 0
                               /\ Written(n, q)
                                    = <<[frame EXCEPT !.hops_left = Some(hops_left - 1)]>>
      ]_vars

\* ---------------------------------------------------- route specification
\* the connection specification with node_b holding a value under the key
\* (it stored it before it had a peer), and with readers that take the frames
\* they can take
InitRoute ==
    UnconnectedWith(Connections,
                    [n \in ConnNodes |->
                        IF n = "node_b"
                        THEN store_dht_value(EmptyFn, "token:rust", Array(<<"a1">>))
                        ELSE EmptyFn])

NextRoute ==
    \/ \E c \in Connections : Open(c[1], c[2])
    \/ ClientWrite
    \/ \E c \in Connections : ReadHandshake(c[1], c[2])
    \/ \E c \in Connections : ReadDhtStore(c[1], c[2])
    \/ \E c \in Connections : ReadDhtFind(c[1], c[2])
    \/ \E c \in Connections : ReadDhtValue(c[1], c[2])
    \/ \E c \in Connections : ReadOther(c[1], c[2])
    \/ DhtFind(LocalNode)
    \/ FindTimeout(LocalNode)
    \/ ConnTick

ReadersRun ==
    \A c \in Connections :
        /\ WF_vars(Open(c[1], c[2]))
        /\ WF_vars(ReadHandshake(c[1], c[2]))
        /\ WF_vars(ReadDhtStore(c[1], c[2]))
        /\ WF_vars(ReadDhtFind(c[1], c[2]))
        /\ WF_vars(ReadDhtValue(c[1], c[2]))
        /\ WF_vars(ReadOther(c[1], c[2]))

SpecRoute == InitRoute /\ [][NextRoute]_vars /\ ReadersRun

\* the lookup n waits for has reached the connection of h, which holds the key
FindReached(n, h) ==
    /\ pc[FindCall(n)].at = "waiting"
    /\ pc[FindCall(n)].request_id \in dht[n].dht_waiters
    /\ pc[FindCall(n)].key \in DOMAIN dht[h].dht_store
    /\ \E i \in 1 .. Len(chan[<<n, h>>]) :
          /\ chan[<<n, h>>][i].type = "dht_find"
          /\ chan[<<n, h>>][i].request_id = pc[FindCall(n)].request_id

\* C33: when a dht_find of a pending lookup has reached a node that holds the
\* key, and the connections stay up, the dht_value comes back to the
\* originator and takes the waiter of the lookup out of its table
C33_ValueComesBack ==
    \A n \in ConnNodes : \A h \in ConnNodes \ {n} :
        FindReached(n, h) ~> (pc[FindCall(n)].request_id \notin dht[n].dht_waiters)

\* C34: no task of a node locks the peer table while it holds it: a reader
\* that has taken a handshake has released the peer-table mutex and reads on,
\* so the mutex is free whenever no handler is at work and no task waits for
\* it for good or finds it poisoned
C34_NoRelock ==
    /\ \A n \in ConnNodes : mutex[n] = "free"
    /\ \A c \in Connections :
          pc[Reader(c[1], c[2])].at \in {"unconnected", "reading"}

\* the message ids drawn so far; in the gossip specification each of them is
\* the id of a broadcast of a node of Origins
Originated == {MsgIdPool[i] : i \in 1 .. minted}

\* C35: a node neither hands to its dispatcher nor relays a message that it
\* broadcast itself
C35_OwnBroadcastDropped ==
    \A n \in Origins : \A id \in Originated :
        dispatched[n][id] = 0 /\ relayed[n][id] = 0

\* ------------------------------------------------------ hops specification
\* node_a broadcasts messages of a type the dispatcher ignores, each with a
\* hops_left of its choice that the payload repeats, on the line
\* node_a - node_b - node_c or on the triangle; the ttl of the seen table is
\* scaled to the clock of the model
MaxHops == 2
HopChoices == 0 .. MaxHops
Line == {{"node_a", "node_b"}, {"node_b", "node_c"}}

\* MeshNode::broadcast of a message with hops_left h
BroadcastNote(n, lim) ==
    \E h \in HopChoices :
        /\ minted < MaxMsgs
        /\ broadcast(n, WireMessage("note", [hops |-> h], NONE, Some(h)), lim)
        /\ UNCHANGED <<now, peers, reader, inbound, dispatched, relayed>>

InitHops ==
    /\ \E edges \in {Line, Triangle} : InitMesh(edges)
    /\ stores = [n \in Nodes |-> StartedStore(n, FALSE, NONE)]
    /\ IdleBazaar
    /\ IdleConn
    /\ IdleStore

NextHops ==
    \/ \E n \in Origins : BroadcastNote(n, ScaledLimits)
                        /\ UNCHANGED <<storeVars, bazaarVars, connVars>>
    \/ \E l \in Links : ReadFrame(l[2], l[1], ScaledLimits)
                        /\ UNCHANGED <<storeVars, bazaarVars, connVars>>
    \/ \E l \in Links : Deliver(l[2], l[1]) /\ UNCHANGED <<storeVars, bazaarVars, connVars>>
    \/ \E n \in Nodes : Dispatch(n) /\ UNCHANGED <<storeVars, connVars>>
    \/ Tick /\ UNCHANGED <<storeVars, bazaarVars, connVars>>

SpecHops == InitHops /\ [][NextHops]_vars

\* the number of links between the origin node_a and n
Distance(n) ==
    IF n \in Origins THEN 0
    ELSE IF \E o \in Origins : n \in DOMAIN peers[o] THEN 1
    ELSE 2

\* the copies on the connection from p to n: written and not yet read, or
\* held by the reader
InFlight(l) == chan[l] \o reader[l]

C37_EscrowWhileActive ==
    \A p \in Nodes : \A t \in DOMAIN tasks[p] :
        tasks[p][t].publisher = p =>
            (t \in DOMAIN stores[p].escrows
                <=> tasks[p][t].status \in {"open", "voting", "assigned"})

\* ------------------------------------------------- claims, sealed bids
\* C38: once the status of a task is assigned or completed on a node, no step
\* changes the bid list of the task on that node: a task_bid that arrives
\* later is not appended
C38_BidsSealed ==
    [][\A n \in Nodes : \A t \in DOMAIN tasks[n] :
          (tasks[n][t].status \in {"assigned", "completed"}
             /\ t \in DOMAIN tasks'[n])
          => tasks'[n][t].bids = tasks[n][t].bids
      ]_vars

\* ------------------------------------------------- claims, single mint
\* C39: the ledger never holds more than one mint entry and that entry has
\* index 0; on a store opened with is_genesis = false no account is indexed
\* under node_genesis and no mint entry is in the ledger, whatever was called
C39_MintOnlyAtGenesis ==
    /\ Cardinality(MintEntries(store)) <= 1
    /\ \A i \in MintEntries(store) : i = 0
    /\ ~store.is_genesis_node =>
          /\ get_account_id_by_node(store, GenesisNode) = NONE
          /\ MintEntries(store) = {}

====
